---------------------------- MODULE Spec2Model ----------------------------
(***************************************************************************)
(* Model of the two compositor backends of vd_agent:                       *)
(*   src/src/vdagent/kwin.c   (KDE Wayland output management, event driven)*)
(*   src/src/vdagent/mutter.c (Mutter DisplayConfig over DBus, synchronous)*)
(*                                                                         *)
(* One caller thread drives the backend that is present.  KWin events are  *)
(* dispatched only inside wl_display_roundtrip, so every public KWin       *)
(* function is cut at its roundtrips and the listener callbacks are the    *)
(* actions that may run while a roundtrip is open.  A Mutter call is one   *)
(* synchronous DBus exchange and is one action.                            *)
(***************************************************************************)
EXTENDS Integers, Sequences, FiniteSets, TLC

(***************************************************************************)
(* Bounds of the model.                                                    *)
(***************************************************************************)
\* outputs the compositor announces (KWin) / monitors it reports (Mutter)
MaxOutputs == 2
\* modes per output
MaxModes == 2
\* entries of a requested layout (num_of_monitors)
MaxMonitors == 2

(***************************************************************************)
(* Value domains the inputs are drawn from.                                *)
(***************************************************************************)
\* connector names the compositor may report
Connectors == {"A", "B"}
\* a char* that is NULL
NullName == "(null)"
\* SPICE display ids the caller's table may hold
DisplayIds == {0, 1}
\* positions <<x, y>>: the origin, and a place right of and below it
Positions == {<<0, 0>>, <<1, 3>>}
\* mode sizes <<width, height>>
Sizes == {<<2, 1>>, <<4, 2>>}
\* refresh rates
Refreshes == {60, 75}
\* output transforms and scales
Transforms == {0, 1}
Scales == {1, 2}
\* what the caller's width, height and screen_count variables may hold
\* before a get_resolutions call
CallerInts == {<<0, 0, 0>>, <<9, 9, 9>>}
\* registry interfaces and versions the compositor may announce
Interfaces == {"kde_output_device_v2", "kde_output_management_v2", "wl_output"}
Versions == {1, 2}

(***************************************************************************)
(* Program constants.                                                      *)
(***************************************************************************)
MIN_OUTPUT_DEVICE_VERSION == 2
MIN_OUTPUT_MANAGEMENT_VERSION == 2
\* the wait loop started one iteration too high
MAX_WAIT_OffByOne == 50 + 1

\* int max_wait = 50
MAX_WAIT == 50

VARIABLES
    backend,            \* which compositor is present: "kwin" or "mutter"
    connector_mapping,  \* the caller's table: connector name -> display id
    pc,                 \* where the caller thread is
    kwin_ptr,           \* the caller's VDAgentKWin*: "NULL", "live" or "freed"
    kwin,               \* struct VDAgentKWin
    mutter_ptr,         \* the caller's VDAgentMutterDBus*: "NULL", "live" or "freed"
    mstate,             \* what Mutter's GetCurrentState answers
    width, height, screen_count,  \* the caller's int variables
    ret,                \* what the last public call returned
    smc,                \* locals of a running set_monitor_config
    trace               \* what the running session did: roundtrips, sleeps, signals

vars == <<backend, connector_mapping, pc, kwin_ptr, kwin, mutter_ptr,
          mstate, width, height, screen_count, ret, smc, trace>>

callerVars == <<width, height, screen_count>>

(***************************************************************************)
(* Helpers.                                                                *)
(***************************************************************************)
\* g_hash_table_lookup_extended(connector_mapping, name, NULL, &value)
Mapped(name) == name \in DOMAIN connector_mapping

\* every table the caller may supply
MappingTables == UNION {[D -> DisplayIds] : D \in SUBSET Connectors}

\* no set_monitor_config is running: mon_config, the loop index i, the
\* configuration object ("none", "live" or "destroyed"), the requests sent on
\* it, max_wait, and what the local output (Mutter: target) was after the
\* lookup of each iteration so far, 0 for NULL
NoSmc == [mon_config |-> <<>>, i |-> 0, config |-> "none", ops |-> <<>>,
          max_wait |-> 0, targets |-> <<>>]

\* nothing observed of a session yet: apply requests sent, roundtrips and
\* sleeps of the wait loop, signals the compositor delivered
NoTrace == [applies |-> 0, roundtrips |-> 0, sleeps |-> 0,
            applied |-> FALSE, failed |-> FALSE]

(***************************************************************************)
(* KWin: the adapter and its listeners.                                    *)
(***************************************************************************)
\* g_new0(VDAgentKWin, 1) with the outputs array created
NewKWin == [display |-> FALSE, registry |-> FALSE, output_management |-> FALSE,
            output_management_version |-> 0, outputs |-> <<>>,
            pending_config |-> FALSE, config_applied |-> FALSE,
            config_failed |-> FALSE]

RECURSIVE GCD(_, _)
GCD(a, b) == IF b = 0 THEN a ELSE GCD(b, a % b)

\* a double that is the ratio n/d of two positive integers, in lowest terms
Double(n, d) == <<n \div GCD(n, d), d \div GCD(n, d)>>

\* wl_fixed_to_double: a wl_fixed_t counts 256ths
wl_fixed_to_double(f) == Double(f, 256)

\* wl_fixed_from_double: d * 256 as an integer
wl_fixed_from_double(d) == (d[1] * 256) \div d[2]

\* the wl_fixed_t scales the compositor may send: 1.0 and 1.5
FixedScales == {256, 384}

\* g_new0(KWinOutput, 1) as registry_handle_global fills it: scale 1.0,
\* enabled.  current_mode and preferred_mode are pointers into the modes
\* array, held here as an index (0 is NULL); current_dangling tells that the
\* array has been moved by a later append since current_mode was stored.
\* withdrawn is no field of KWinOutput: it tells that the compositor has
\* removed the global the output was bound from
NewOutput == [name |-> NullName, x |-> 0, y |-> 0, width |-> 0, height |-> 0,
              transform |-> 0, scale |-> Double(1, 1), enabled |-> TRUE,
              modes |-> <<>>, current_mode |-> 0, current_dangling |-> FALSE,
              preferred_mode |-> 0, done |-> FALSE, withdrawn |-> FALSE]

\* what the compositor has announced for a mode object: nothing yet
NothingSent == [width |-> 0, height |-> 0, refresh |-> 0, preferred |-> FALSE]

\* the KWinMode that output_handle_mode appends.  sent is no field of
\* KWinMode: it is what the compositor has announced for the mode object
NewMode(h) == [mode |-> h, width |-> 0, height |-> 0, refresh |-> 0,
               preferred |-> FALSE, current |-> FALSE, sent |-> NothingSent]

\* wl_display_roundtrip is open: listeners may be called
InRoundtrip == pc \in {"create_rt1", "create_rt2", "gr_rt", "smc_rt", "smc_wait_rt"}

\* an output event can be dispatched
CanDispatch == /\ backend = "kwin"
               /\ InRoundtrip

OutputIdx == 1..Len(kwin.outputs)

SetOutput(k, o) == [kwin EXCEPT !.outputs[k] = o]

EventFrame == <<backend, connector_mapping, pc, kwin_ptr, mutter_ptr, mstate,
                width, height, screen_count, ret, smc, trace>>

\* the version of a global not tested before it is bound
registry_handle_global_AnyVersion(interface, version) ==
    /\ CanDispatch
    /\ IF interface = "kde_output_device_v2"
       THEN /\ Len(kwin.outputs) < MaxOutputs
            /\ kwin' = [kwin EXCEPT !.outputs = Append(@, NewOutput)]
       ELSE IF interface = "kde_output_management_v2"
            THEN kwin' = [kwin EXCEPT !.output_management = TRUE,
                                      !.output_management_version = version]
            ELSE UNCHANGED kwin
    /\ UNCHANGED EventFrame

registry_handle_global(interface, version) ==
    /\ CanDispatch
    /\ IF interface = "kde_output_device_v2"
       THEN IF version < MIN_OUTPUT_DEVICE_VERSION
            THEN UNCHANGED kwin
            ELSE /\ Len(kwin.outputs) < MaxOutputs
                 /\ kwin' = [kwin EXCEPT !.outputs = Append(@, NewOutput)]
       ELSE IF interface = "kde_output_management_v2"
            THEN IF version < MIN_OUTPUT_MANAGEMENT_VERSION
                 THEN UNCHANGED kwin
                 ELSE kwin' = [kwin EXCEPT !.output_management = TRUE,
                                           !.output_management_version = version]
            ELSE UNCHANGED kwin
    /\ UNCHANGED EventFrame

output_handle_name(k, name) ==
    /\ CanDispatch
    /\ kwin' = SetOutput(k, [kwin.outputs[k] EXCEPT !.name = name])
    /\ UNCHANGED EventFrame

output_handle_geometry(k, x, y, transform) ==
    /\ CanDispatch
    /\ kwin' = SetOutput(k, [kwin.outputs[k] EXCEPT !.x = x, !.y = y,
                                                    !.transform = transform])
    /\ UNCHANGED EventFrame

output_handle_scale(k, scale) ==
    /\ CanDispatch
    /\ kwin' = SetOutput(k, [kwin.outputs[k] EXCEPT
                                 !.scale = wl_fixed_to_double(scale)])
    /\ UNCHANGED EventFrame

output_handle_enabled(k, enabled) ==
    /\ CanDispatch
    /\ kwin' = SetOutput(k, [kwin.outputs[k] EXCEPT !.enabled = (enabled # 0)])
    /\ UNCHANGED EventFrame

\* the listener is registered with the address of the local KWinMode, and a
\* copy of that local is appended.  g_array_append_val may move the array
\* (moved): a current_mode pointer stored before then points to freed memory
output_handle_mode(k, moved) ==
    /\ CanDispatch
    /\ Len(kwin.outputs[k].modes) < MaxModes
    /\ kwin' = SetOutput(k, [kwin.outputs[k] EXCEPT
                  !.modes = Append(@, NewMode(<<k, Len(kwin.outputs[k].modes) + 1>>)),
                  !.current_dangling =
                      kwin.outputs[k].current_mode # 0 /\ (@ \/ moved)])
    /\ UNCHANGED EventFrame

\* mode_handle_size, mode_handle_refresh and mode_handle_preferred write
\* through the pointer output_handle_mode registered: the address of the
\* local KWinMode of that call, which is dead by now, never the element of
\* output->modes.  The array element keeps what output_handle_mode stored;
\* the write lands in the stack of the running dispatch and is either without
\* effect on the adapter or ends the process.
DeadLocalWritten(k, m, sent) ==
    /\ CanDispatch
    /\ k \in OutputIdx
    /\ m \in 1..Len(kwin.outputs[k].modes)
    /\ sent # kwin.outputs[k].modes[m].sent
    /\ kwin' = [kwin EXCEPT !.outputs[k].modes[m].sent = sent]
    /\ pc' \in {pc, "aborted"}
    /\ UNCHANGED <<backend, connector_mapping, kwin_ptr, mutter_ptr, mstate,
                   width, height, screen_count, ret, smc, trace>>

mode_handle_size(k, m, w, h) ==
    /\ k \in OutputIdx
    /\ m \in 1..Len(kwin.outputs[k].modes)
    /\ DeadLocalWritten(k, m, [kwin.outputs[k].modes[m].sent
                                  EXCEPT !.width = w, !.height = h])

mode_handle_refresh(k, m, refresh) ==
    /\ k \in OutputIdx
    /\ m \in 1..Len(kwin.outputs[k].modes)
    /\ DeadLocalWritten(k, m, [kwin.outputs[k].modes[m].sent
                                  EXCEPT !.refresh = refresh])

mode_handle_preferred(k, m) ==
    /\ k \in OutputIdx
    /\ m \in 1..Len(kwin.outputs[k].modes)
    /\ DeadLocalWritten(k, m, [kwin.outputs[k].modes[m].sent
                                  EXCEPT !.preferred = TRUE])

\* registry_handle_global_remove: the compositor has removed the global of
\* output k; the handler does nothing
registry_handle_global_remove(k) ==
    /\ CanDispatch
    /\ k \in OutputIdx
    /\ ~kwin.outputs[k].withdrawn
    /\ kwin' = [kwin EXCEPT !.outputs[k].withdrawn = TRUE]
    /\ UNCHANGED EventFrame

RECURSIVE MarkCurrent(_, _, _)
\* the loop of output_handle_current_mode over modes i..len
MarkCurrent(o, h, i) ==
    IF i > Len(o.modes) THEN o
    ELSE IF o.modes[i].mode = h
         THEN MarkCurrent([o EXCEPT !.modes[i].current = TRUE,
                                    !.current_mode = i,
                                    !.current_dangling = FALSE,
                                    !.width = o.modes[i].width,
                                    !.height = o.modes[i].height], h, i + 1)
         ELSE MarkCurrent([o EXCEPT !.modes[i].current = FALSE], h, i + 1)

output_handle_current_mode(k, m) ==
    /\ CanDispatch
    /\ m \in 1..Len(kwin.outputs[k].modes)
    /\ kwin' = SetOutput(k, MarkCurrent(kwin.outputs[k],
                                        kwin.outputs[k].modes[m].mode, 1))
    /\ UNCHANGED EventFrame

RECURSIVE FirstPreferred(_, _)
\* the index of the first preferred mode from i on, 0 when there is none
FirstPreferred(modes, i) ==
    IF i > Len(modes) THEN 0
    ELSE IF modes[i].preferred THEN i ELSE FirstPreferred(modes, i + 1)

output_handle_done(k) ==
    /\ CanDispatch
    /\ LET o == kwin.outputs[k]
           p == FirstPreferred(o.modes, 1)
       IN kwin' = SetOutput(k, [o EXCEPT !.done = TRUE,
                                         !.preferred_mode =
                                             IF p # 0 THEN p ELSE @])
    /\ UNCHANGED EventFrame

\* the compositor gives every output its own connector name
OtherNames(k) == {kwin.outputs[j].name : j \in OutputIdx \ {k}}

\* the callbacks that describe an output to discovery: name, position,
\* enabled, done
DescribeEvent ==
    \E k \in OutputIdx :
        \/ \E n \in Connectors \ OtherNames(k) : output_handle_name(k, n)
        \/ \E g \in Positions : output_handle_geometry(k, g[1], g[2], 0)
        \/ \E e \in {0, 1} : output_handle_enabled(k, e)
        \/ output_handle_done(k)

\* the callbacks that announce modes and the current mode
ModeEvent ==
    \E k \in OutputIdx :
        \/ \E moved \in BOOLEAN : output_handle_mode(k, moved)
        \/ \E m \in 1..MaxModes, s \in Sizes : mode_handle_size(k, m, s[1], s[2])
        \/ \E m \in 1..MaxModes : output_handle_current_mode(k, m)

RegistryEvent ==
    \E i \in Interfaces, v \in Versions : registry_handle_global(i, v)


(***************************************************************************)
(* KWin: create.                                                           *)
(***************************************************************************)
NoRes == [op |-> "none", ok |-> FALSE, res |-> <<>>, value |-> 0]

\* vdagent_kwin_destroy as vdagent_kwin_create calls it on its failure paths:
\* every resource the struct holds is released and the struct is freed
DestroyedKWin == NewKWin

\* vdagent_kwin_create up to its first roundtrip
KWinCreate(connected) ==
    /\ pc = "idle"
    /\ backend = "kwin"
    /\ kwin_ptr = "NULL"
    /\ IF connected
       THEN /\ kwin' = [NewKWin EXCEPT !.display = TRUE, !.registry = TRUE]
            /\ pc' = "create_rt1"
            /\ ret' = NoRes
       ELSE /\ kwin' = DestroyedKWin
            /\ pc' = "idle"
            /\ ret' = [NoRes EXCEPT !.op = "create"]
    /\ UNCHANGED <<backend, connector_mapping, kwin_ptr, mutter_ptr,
                   mstate, callerVars, smc, trace>>

\* the first wl_display_roundtrip of vdagent_kwin_create returns
KWinCreateRoundtrip ==
    /\ pc = "create_rt1"
    /\ pc' = "create_rt2"
    /\ UNCHANGED <<backend, connector_mapping, kwin_ptr, kwin,
                   mutter_ptr, mstate, callerVars, ret, smc, trace>>

\* the second roundtrip returns and the required protocol is checked
KWinCreateEnd ==
    /\ pc = "create_rt2"
    /\ pc' = "idle"
    /\ IF ~kwin.output_management
       THEN /\ kwin' = DestroyedKWin
            /\ kwin_ptr' = "NULL"
            /\ ret' = [NoRes EXCEPT !.op = "create"]
       ELSE /\ kwin_ptr' = "live"
            /\ ret' = [NoRes EXCEPT !.op = "create", !.ok = TRUE]
            /\ UNCHANGED kwin
    /\ UNCHANGED <<backend, connector_mapping, mutter_ptr, mstate,
                   callerVars, smc, trace>>

(***************************************************************************)
(* KWin: get_resolutions.                                                  *)
(***************************************************************************)
\* struct vdagentd_guest_xorg_resolution
Resolution(x, y, w, h, id) ==
    [x |-> x, y |-> y, width |-> w, height |-> h, display_id |-> id]

\* the fallback array returned without the renumbering
NumberByIndex_Unnumbered(arr) == arr

\* res[i].display_id = i over the whole array (i counted from 0)
NumberByIndex(arr) == [i \in 1..Len(arr) |-> [arr[i] EXCEPT !.display_id = i - 1]]

\* the unmapped outputs returned behind the mapped ones
FallbackByIndex_KeepsUnmapped(res_array, not_found_array) ==
    IF Len(res_array) = 0 THEN NumberByIndex(not_found_array)
    ELSE res_array \o NumberByIndex(not_found_array)

\* "If no mappings found, assume display ID == monitor index"
FallbackByIndex(res_array, not_found_array) ==
    IF Len(res_array) = 0 THEN NumberByIndex(not_found_array) ELSE res_array

\* an output that was never completed is let through
KWinSkipped_IgnoresDone(o) == ~o.enabled

\* the KWin loop skips an output that is not done or not enabled
KWinSkipped(o) == ~o.done \/ ~o.enabled

\* the body of the KWin loop for one output that is not skipped
KWinScanOne(o, acc) ==
    LET res == Resolution(o.x, o.y, o.width, o.height, 0)
        w == IF res.x + res.width > acc.width THEN res.x + res.width ELSE acc.width
        h == IF res.y + res.height > acc.height THEN res.y + res.height ELSE acc.height
        known == o.name # NullName /\ Mapped(o.name)
    IN [res_array |-> IF known
                      THEN Append(acc.res_array,
                                  [res EXCEPT !.display_id = connector_mapping[o.name]])
                      ELSE acc.res_array,
        not_found_array |-> IF known THEN acc.not_found_array
                            ELSE Append(acc.not_found_array, res),
        width |-> w, height |-> h, screen_count |-> acc.screen_count + 1]

RECURSIVE KWinScan(_, _, _)
\* the loop of vdagent_kwin_get_resolutions over outputs i..len
KWinScan(outs, i, acc) ==
    IF i > Len(outs) THEN acc
    ELSE IF KWinSkipped(outs[i]) THEN KWinScan(outs, i + 1, acc)
         ELSE KWinScan(outs, i + 1, KWinScanOne(outs[i], acc))

\* the array of the last call taken up again instead of a new one
KWinScanStart_KeepsLast == [res_array |-> ret.res, not_found_array |-> <<>>,
                            width |-> 0, height |-> 0, screen_count |-> 0]

\* *width = 0; *height = 0; *screen_count = 0; two empty arrays
KWinScanStart == [res_array |-> <<>>, not_found_array |-> <<>>,
                  width |-> 0, height |-> 0, screen_count |-> 0]

\* vdagent_kwin_get_resolutions up to its roundtrip; w0, h0, c0 are what the
\* caller's variables hold when it calls
KWinGetResolutions(w0, h0, c0) ==
    /\ pc = "idle"
    /\ backend = "kwin"
    /\ width' = w0 /\ height' = h0 /\ screen_count' = c0
    /\ IF kwin_ptr = "NULL" \/ ~kwin.output_management
       THEN /\ pc' = "idle"
            /\ ret' = [NoRes EXCEPT !.op = "get_resolutions"]
       ELSE /\ pc' = "gr_rt"
            /\ ret' = NoRes
    /\ UNCHANGED <<backend, connector_mapping, kwin_ptr, kwin,
                   mutter_ptr, mstate, smc, trace>>

\* the roundtrip returns; the outputs are scanned and the array returned
KWinGetResolutionsEnd ==
    /\ pc = "gr_rt"
    /\ LET acc == KWinScan(kwin.outputs, 1, KWinScanStart)
       IN /\ width' = acc.width
          /\ height' = acc.height
          /\ screen_count' = acc.screen_count
          /\ ret' = [op |-> "get_resolutions", ok |-> TRUE,
                     res |-> FallbackByIndex(acc.res_array, acc.not_found_array),
                     value |-> 0]
    /\ pc' = "idle"
    /\ UNCHANGED <<backend, connector_mapping, kwin_ptr, kwin,
                   mutter_ptr, mstate, smc, trace>>


(***************************************************************************)
(* Mutter: the compositor's state, as GetCurrentState reports it.          *)
(***************************************************************************)
\* no monitor and no logical monitor
NoMState == [monitors |-> <<>>, logical_monitors |-> <<>>]

MutterEnvFrame == <<backend, connector_mapping, pc, kwin_ptr, kwin, mutter_ptr,
                    width, height, screen_count, ret, smc, trace>>

\* the compositor may change its state between two calls of the agent, once
\* the caller has let go of the last result
CanChange == /\ backend = "mutter"
             /\ pc = "idle"
             /\ ret = NoRes

\* the connectors of the monitors reported so far
MutterConnectors == {mstate.monitors[k].connector : k \in 1..Len(mstate.monitors)}

\* monitor k has a mode whose "is-current" property is true
MutterActive(k) ==
    \E m \in 1..Len(mstate.monitors[k].modes) : mstate.monitors[k].modes[m].is_current

\* a monitor is plugged: MONITOR_FORMAT, connectors are unique
MutterMonitorAdded(connector) ==
    /\ CanChange
    /\ Len(mstate.monitors) < MaxOutputs
    /\ connector \notin MutterConnectors
    /\ mstate' = [mstate EXCEPT !.monitors =
                      Append(@, [connector |-> connector, modes |-> <<>>])]
    /\ UNCHANGED MutterEnvFrame

\* a monitor offers one more mode: MODE_FORMAT, not current; the mode ids of
\* a monitor are unique
MutterModeAdded(k, w, h, refresh) ==
    /\ CanChange
    /\ k \in 1..Len(mstate.monitors)
    /\ Len(mstate.monitors[k].modes) < MaxModes
    /\ \A m \in 1..Len(mstate.monitors[k].modes) :
           mstate.monitors[k].modes[m].mode_id # <<w, h, refresh>>
    /\ mstate' = [mstate EXCEPT !.monitors[k].modes =
                      Append(@, [mode_id |-> <<w, h, refresh>>, width |-> w,
                                 height |-> h, refresh_rate |-> refresh,
                                 is_current |-> FALSE])]
    /\ UNCHANGED MutterEnvFrame

\* an inactive monitor is turned on with mode m: the mode becomes current and
\* a logical monitor holding the connector appears (LOGICAL_MONITOR_FORMAT)
MutterMonitorActivated(k, m, x, y, scale, transform) ==
    /\ CanChange
    /\ k \in 1..Len(mstate.monitors)
    /\ m \in 1..Len(mstate.monitors[k].modes)
    /\ ~MutterActive(k)
    /\ mstate' = [mstate EXCEPT
                      !.monitors[k].modes[m].is_current = TRUE,
                      !.logical_monitors =
                          Append(@, [x |-> x, y |-> y, scale |-> scale,
                                     transform |-> transform,
                                     primary |-> (Len(mstate.logical_monitors) = 0),
                                     monitors |-> {mstate.monitors[k].connector}])]
    /\ UNCHANGED MutterEnvFrame

\* the state changes discovery can observe
MutterEnv ==
    \/ \E c \in Connectors : MutterMonitorAdded(c)
    \/ \E k \in 1..MaxOutputs, s \in Sizes : MutterModeAdded(k, s[1], s[2], 60)
    \/ \E k \in 1..MaxOutputs, m \in 1..MaxModes, g \in Positions :
           MutterMonitorActivated(k, m, g[1], g[2], 1, 0)

(***************************************************************************)
(* Mutter: create and get_resolutions.                                     *)
(***************************************************************************)
\* vdagent_mutter_create: proxied tells whether the DBus proxy was created
MutterCreate(proxied) ==
    /\ pc = "idle"
    /\ backend = "mutter"
    /\ mutter_ptr = "NULL"
    /\ mutter_ptr' = IF proxied THEN "live" ELSE "NULL"
    /\ ret' = [NoRes EXCEPT !.op = "create", !.ok = proxied]
    /\ UNCHANGED <<backend, connector_mapping, pc, kwin_ptr, kwin,
                   mstate, callerVars, smc, trace>>

RECURSIVE MutterPosition(_, _, _, _)
\* vdagent_mutter_get_monitor_position from logical monitor i on; xy is what
\* *x and *y hold so far
MutterPosition(logical_monitors, connector, i, xy) ==
    IF i > Len(logical_monitors) THEN xy
    ELSE IF connector \in logical_monitors[i].monitors
         THEN <<logical_monitors[i].x, logical_monitors[i].y>>
         ELSE MutterPosition(logical_monitors, connector, i + 1, <<0, 0>>)

RECURSIVE FirstCurrent(_, _)
\* the first mode from i on whose "is-current" property is true, 0 if none
FirstCurrent(modes, i) ==
    IF i > Len(modes) THEN 0
    ELSE IF modes[i].is_current THEN i ELSE FirstCurrent(modes, i + 1)

\* the body of the Mutter loop for one monitor whose current mode is modes[c];
\* junk is what the local struct curr holds before anything is stored in it
MutterScanOne(state, mon, c, junk, acc) ==
    LET xy == MutterPosition(state.logical_monitors, mon.connector, 1, junk)
        curr == Resolution(xy[1], xy[2], mon.modes[c].width, mon.modes[c].height, 0)
        w == IF curr.x + curr.width > acc.width
             THEN curr.x + curr.width ELSE acc.width
        h == IF curr.y + curr.height > acc.height
             THEN curr.y + curr.height ELSE acc.height
        known == Mapped(mon.connector)
    IN [res_array |-> IF known
                      THEN Append(acc.res_array,
                             [curr EXCEPT !.display_id = connector_mapping[mon.connector]])
                      ELSE acc.res_array,
        not_found_array |-> IF known THEN acc.not_found_array
                            ELSE Append(acc.not_found_array, curr),
        width |-> w, height |-> h, screen_count |-> acc.screen_count]

RECURSIVE MutterScan(_, _, _, _)
\* the loop of vdagent_mutter_get_resolutions over monitors i..len
MutterScan(state, i, junk, acc) ==
    IF i > Len(state.monitors) THEN acc
    ELSE LET mon == state.monitors[i]
             c == FirstCurrent(mon.modes, 1)
         IN IF c = 0 THEN MutterScan(state, i + 1, junk, acc)
            ELSE MutterScan(state, i + 1, junk,
                            MutterScanOne(state, mon, c, junk[i], acc))

\* *screen_count = g_variant_iter_n_children(monitors); the desktop size
\* starts from what the caller's variables hold
MutterScanStart(state, w0, h0) ==
    [res_array |-> <<>>, not_found_array |-> <<>>,
     width |-> w0, height |-> h0, screen_count |-> Len(state.monitors)]

\* what the x and y of an uninitialised struct may hold
Indeterminate == {<<0, 0>>, <<5, 7>>}

\* curr.x and curr.y are read uninitialised only when there is no logical
\* monitor at all: the position loop then stores nothing
JunkChoices(state) ==
    IF Len(state.logical_monitors) = 0
    THEN [1..Len(state.monitors) -> Indeterminate]
    ELSE {[i \in 1..Len(state.monitors) |-> <<0, 0>>]}

\* the screen count stored before the answer of GetCurrentState is tested
MutterGetResolutions_CountsFirst(w0, h0, c0, answered) ==
    /\ pc = "idle"
    /\ backend = "mutter"
    /\ IF mutter_ptr = "NULL" \/ ~answered
       THEN /\ width' = w0 /\ height' = h0
            /\ screen_count' = Len(mstate.monitors)
            /\ ret' = [NoRes EXCEPT !.op = "get_resolutions"]
       ELSE \E junk \in JunkChoices(mstate) :
              LET acc == MutterScan(mstate, 1, junk, MutterScanStart(mstate, w0, h0))
              IN /\ width' = acc.width
                 /\ height' = acc.height
                 /\ screen_count' = acc.screen_count
                 /\ ret' = [op |-> "get_resolutions", ok |-> TRUE,
                            res |-> FallbackByIndex(acc.res_array,
                                                    acc.not_found_array),
                            value |-> 0]
    /\ UNCHANGED <<backend, connector_mapping, pc, kwin_ptr, kwin,
                   mutter_ptr, mstate, smc, trace>>

\* vdagent_mutter_get_resolutions; w0, h0, c0 are what the caller's variables
\* hold when it calls, answered tells whether GetCurrentState succeeded
MutterGetResolutions(w0, h0, c0, answered) ==
    /\ pc = "idle"
    /\ backend = "mutter"
    /\ IF mutter_ptr = "NULL" \/ ~answered
       THEN /\ width' = w0 /\ height' = h0 /\ screen_count' = c0
            /\ ret' = [NoRes EXCEPT !.op = "get_resolutions"]
       ELSE \E junk \in JunkChoices(mstate) :
              LET acc == MutterScan(mstate, 1, junk, MutterScanStart(mstate, w0, h0))
              IN /\ width' = acc.width
                 /\ height' = acc.height
                 /\ screen_count' = acc.screen_count
                 /\ ret' = [op |-> "get_resolutions", ok |-> TRUE,
                            res |-> FallbackByIndex(acc.res_array,
                                                    acc.not_found_array),
                            value |-> 0]
    /\ UNCHANGED <<backend, connector_mapping, pc, kwin_ptr, kwin,
                   mutter_ptr, mstate, smc, trace>>

(***************************************************************************)
(* KWin: set_monitor_config.                                               *)
(***************************************************************************)
RECURSIVE FindMapped(_, _, _)
\* the inner loop of vdagent_kwin_set_monitor_config: the first output from j
\* on whose connector the table maps to display i, 0 when there is none
FindMapped(outs, i, j) ==
    IF j > Len(outs) THEN 0
    ELSE IF outs[j].name # NullName /\ Mapped(outs[j].name)
            /\ connector_mapping[outs[j].name] = i
         THEN j
         ELSE FindMapped(outs, i, j + 1)

\* the lookup by the table alone, without the step to the output index
KWinTarget_MappedOnly(outs, i) == FindMapped(outs, i, 1)

\* the output entry i (counted from 0) is applied to, 0 when there is none:
\* by the table, else "If no mapping found, use output index"
KWinTarget(outs, i) ==
    LET j == FindMapped(outs, i, 1)
    IN IF j # 0 THEN j
       ELSE IF i < Len(outs) THEN i + 1 ELSE 0

RECURSIVE FindMode(_, _, _, _, _, _)
\* the loop of kwin_find_mode from mode i on; best = 0 is NULL
FindMode(modes, w, h, i, best, best_refresh) ==
    IF i > Len(modes) THEN best
    ELSE IF modes[i].width = w /\ modes[i].height = h
            /\ (best = 0 \/ modes[i].refresh > best_refresh)
         THEN FindMode(modes, w, h, i + 1, i, modes[i].refresh)
         ELSE FindMode(modes, w, h, i + 1, best, best_refresh)

kwin_find_mode(output, w, h) == FindMode(output.modes, w, h, 1, 0, 0)

\* a request sent on the configuration object for output j
Request(op, j, args) == [op |-> op, output |-> j, args |-> args]

\* a mode handle read from freed memory that is none the compositor gave
JunkHandle == <<0, 0>>

\* what output->current_mode->mode may yield: the handle of the current mode,
\* or, through a dangling pointer, that old content or anything else
CurrentModeReads(output) ==
    IF output.current_dangling
    THEN {output.modes[output.current_mode].mode, JunkHandle}
    ELSE {output.modes[output.current_mode].mode}

\* the scale set back to 1 instead of kept
KWinEntryRequests_ScaleOne(outs, j, mc, read) ==
    LET output == outs[j]
        mode == kwin_find_mode(output, mc.width, mc.height)
        modeReq == IF mode # 0
                   THEN <<Request("mode", j, <<output.modes[mode].mode>>)>>
                   ELSE IF output.current_mode # 0
                        THEN <<Request("mode", j, <<read>>)>>
                        ELSE <<>>
    IN <<Request("enable", j, <<1>>)>> \o modeReq \o
       <<Request("position", j, <<mc.x, mc.y>>),
         Request("scale", j, <<wl_fixed_from_double(Double(1, 1))>>),
         Request("transform", j, <<output.transform>>)>>

\* the requests one iteration of the loop sends for entry mc and output j;
\* read is what output->current_mode->mode yields if it is read
KWinEntryRequests(outs, j, mc, read) ==
    LET output == outs[j]
        mode == kwin_find_mode(output, mc.width, mc.height)
        modeReq == IF mode # 0
                   THEN <<Request("mode", j, <<output.modes[mode].mode>>)>>
                   ELSE IF output.current_mode # 0
                        THEN <<Request("mode", j, <<read>>)>>
                        ELSE <<>>
    IN <<Request("enable", j, <<1>>)>> \o modeReq \o
       <<Request("position", j, <<mc.x, mc.y>>),
         Request("scale", j, <<wl_fixed_from_double(output.scale)>>),
         Request("transform", j, <<output.transform>>)>>

\* the values the read of the current mode may take for the output entry i
\* goes to; one value when that read does not happen
KWinEntryReads(outs, i, mc) ==
    LET j == KWinTarget(outs, i)
    IN IF j # 0 /\ outs[j].current_mode # 0
          /\ kwin_find_mode(outs[j], mc.width, mc.height) = 0
       THEN CurrentModeReads(outs[j])
       ELSE {JunkHandle}

SmcFrame == <<backend, connector_mapping, kwin_ptr, mutter_ptr, mstate, callerVars>>

\* vdagent_kwin_set_monitor_config up to its first roundtrip; present tells
\* whether mon_config is non-NULL
KWinSetMonitorConfig(present, monitors) ==
    /\ pc = "idle"
    /\ backend = "kwin"
    /\ trace' = NoTrace
    /\ IF kwin_ptr = "NULL" \/ ~kwin.output_management \/ ~present
       THEN /\ pc' = "idle"
            /\ ret' = [NoRes EXCEPT !.op = "set_monitor_config", !.value = -1]
            /\ smc' = NoSmc
       ELSE /\ pc' = "smc_rt"
            /\ ret' = NoRes
            /\ smc' = [NoSmc EXCEPT !.mon_config = monitors]
    /\ UNCHANGED <<SmcFrame, kwin>>

\* the flags of the previous session are left standing
KWinSmcConfigure_KeepsFlags(created) ==
    /\ pc = "smc_rt"
    /\ IF created
       THEN /\ smc' = [smc EXCEPT !.config = "live", !.i = 0]
            /\ pc' = "smc_build"
            /\ UNCHANGED <<kwin, ret>>
       ELSE /\ pc' = "idle"
            /\ ret' = [NoRes EXCEPT !.op = "set_monitor_config", !.value = -1]
            /\ UNCHANGED <<kwin, smc>>
    /\ UNCHANGED <<SmcFrame, trace>>

\* the result of create_configuration used without being tested
KWinSmcConfigure_Unchecked(created) ==
    /\ pc = "smc_rt"
    /\ kwin' = [kwin EXCEPT !.config_applied = FALSE, !.config_failed = FALSE]
    /\ smc' = [smc EXCEPT !.config = "live", !.i = 0]
    /\ pc' = "smc_build"
    /\ UNCHANGED ret
    /\ UNCHANGED <<SmcFrame, trace>>

\* the roundtrip returns and the configuration object is created (created
\* tells whether create_configuration gave one); the flags are cleared
KWinSmcConfigure(created) ==
    /\ pc = "smc_rt"
    /\ IF created
       THEN /\ kwin' = [kwin EXCEPT !.config_applied = FALSE,
                                    !.config_failed = FALSE]
            /\ smc' = [smc EXCEPT !.config = "live", !.i = 0]
            /\ pc' = "smc_build"
            /\ UNCHANGED ret
       ELSE /\ pc' = "idle"
            /\ ret' = [NoRes EXCEPT !.op = "set_monitor_config", !.value = -1]
            /\ UNCHANGED <<kwin, smc>>
    /\ UNCHANGED <<SmcFrame, trace>>

\* the configuration applied inside the loop, once per entry
KWinSmcBuildEntry_AppliesEach ==
    /\ pc = "smc_build"
    /\ smc.i < Len(smc.mon_config)
    /\ LET j == KWinTarget(kwin.outputs, smc.i)
           mc == smc.mon_config[smc.i + 1]
       IN \E read \in KWinEntryReads(kwin.outputs, smc.i, mc) :
            smc' = [smc EXCEPT
                    !.i = @ + 1,
                    !.targets = Append(@, j),
                    !.ops = (IF j = 0 THEN @
                             ELSE @ \o KWinEntryRequests(kwin.outputs, j, mc, read))
                            \o <<Request("apply", 0, <<>>)>>]
    /\ trace' = [trace EXCEPT !.applies = @ + 1]
    /\ UNCHANGED <<SmcFrame, pc, kwin, ret>>

\* one iteration of "Apply configuration to each monitor"
KWinSmcBuildEntry ==
    /\ pc = "smc_build"
    /\ smc.i < Len(smc.mon_config)
    /\ LET j == KWinTarget(kwin.outputs, smc.i)
           mc == smc.mon_config[smc.i + 1]
       IN \E read \in KWinEntryReads(kwin.outputs, smc.i, mc) :
            smc' = [smc EXCEPT
                    !.i = @ + 1,
                    !.targets = Append(@, j),
                    !.ops = IF j = 0 THEN @
                            ELSE @ \o KWinEntryRequests(kwin.outputs, j, mc, read)]
    /\ UNCHANGED <<SmcFrame, pc, kwin, ret, trace>>

\* the configuration applied wherever the loop stands
KWinSmcApply_Early ==
    /\ pc = "smc_build"
    /\ smc' = [smc EXCEPT !.ops = Append(@, Request("apply", 0, <<>>)),
                          !.max_wait = MAX_WAIT]
    /\ trace' = [trace EXCEPT !.applies = @ + 1]
    /\ pc' = "smc_wait"
    /\ UNCHANGED <<SmcFrame, kwin, ret>>

\* the loop is over: kde_output_configuration_v2_apply, wl_display_flush,
\* max_wait = 50
KWinSmcApply ==
    /\ pc = "smc_build"
    /\ smc.i >= Len(smc.mon_config)
    /\ smc' = [smc EXCEPT !.ops = Append(@, Request("apply", 0, <<>>)),
                          !.max_wait = MAX_WAIT]
    /\ trace' = [trace EXCEPT !.applies = @ + 1]
    /\ pc' = "smc_wait"
    /\ UNCHANGED <<SmcFrame, kwin, ret>>

\* the condition of the wait loop
KWinSmcWaiting ==
    ~kwin.config_applied /\ ~kwin.config_failed /\ smc.max_wait > 0

\* the wait loop goes round: wl_display_roundtrip is entered
KWinSmcPoll ==
    /\ pc = "smc_wait"
    /\ KWinSmcWaiting
    /\ pc' = "smc_wait_rt"
    /\ trace' = [trace EXCEPT !.roundtrips = @ + 1]
    /\ UNCHANGED <<SmcFrame, kwin, ret, smc>>

\* the sleep and the countdown done whether or not a signal has arrived
KWinSmcPolled_AlwaysSleeps ==
    /\ pc = "smc_wait_rt"
    /\ pc' = "smc_wait"
    /\ smc' = [smc EXCEPT !.max_wait = @ - 1]
    /\ trace' = [trace EXCEPT !.sleeps = @ + 1]
    /\ UNCHANGED <<SmcFrame, kwin, ret>>

\* the roundtrip of the wait loop returns: sleep 100ms and count down, unless
\* a signal has arrived
KWinSmcPolled ==
    /\ pc = "smc_wait_rt"
    /\ pc' = "smc_wait"
    /\ IF ~kwin.config_applied /\ ~kwin.config_failed
       THEN /\ smc' = [smc EXCEPT !.max_wait = @ - 1]
            /\ trace' = [trace EXCEPT !.sleeps = @ + 1]
       ELSE UNCHANGED <<smc, trace>>
    /\ UNCHANGED <<SmcFrame, kwin, ret>>

\* an entry without an output fails the whole call
KWinSmcResult_FailsOnSkip ==
    IF \E n \in 1..Len(smc.targets) : smc.targets[n] = 0 THEN -1
    ELSE IF kwin.config_failed THEN -1
    ELSE IF ~kwin.config_applied THEN -1
    ELSE 0

\* the timeout not told from success
KWinSmcResult_IgnoresTimeout ==
    IF kwin.config_failed THEN -1 ELSE 0

\* what vdagent_kwin_set_monitor_config returns after the wait loop
KWinSmcResult ==
    IF kwin.config_failed THEN -1
    ELSE IF ~kwin.config_applied THEN -1
    ELSE 0

\* the configuration is left alive when the wait has timed out
KWinSmcFinish_LeaksOnTimeout ==
    /\ pc = "smc_wait"
    /\ ~KWinSmcWaiting
    /\ smc' = [smc EXCEPT !.config =
                   IF kwin.config_applied \/ kwin.config_failed
                   THEN "destroyed" ELSE "live"]
    /\ ret' = [NoRes EXCEPT !.op = "set_monitor_config",
                            !.value = KWinSmcResult,
                            !.ok = (KWinSmcResult = 0)]
    /\ pc' = "idle"
    /\ UNCHANGED <<SmcFrame, kwin, trace>>

\* the wait loop is left: the configuration is destroyed and the result
\* returned
KWinSmcFinish ==
    /\ pc = "smc_wait"
    /\ ~KWinSmcWaiting
    /\ smc' = [smc EXCEPT !.config = "destroyed"]
    /\ ret' = [NoRes EXCEPT !.op = "set_monitor_config",
                            !.value = KWinSmcResult,
                            !.ok = (KWinSmcResult = 0)]
    /\ pc' = "idle"
    /\ UNCHANGED <<SmcFrame, kwin, trace>>

\* the compositor answers an applied configuration while a roundtrip is open
CanSignal == /\ backend = "kwin"
             /\ InRoundtrip
             /\ smc.config = "live"
             /\ trace.applies > 0

config_handle_applied ==
    /\ CanSignal
    /\ kwin' = [kwin EXCEPT !.config_applied = TRUE]
    /\ trace' = [trace EXCEPT !.applied = TRUE]
    /\ UNCHANGED <<SmcFrame, pc, ret, smc>>

config_handle_failed ==
    /\ CanSignal
    /\ kwin' = [kwin EXCEPT !.config_failed = TRUE]
    /\ trace' = [trace EXCEPT !.failed = TRUE]
    /\ UNCHANGED <<SmcFrame, pc, ret, smc>>

(***************************************************************************)
(* The caller.                                                             *)
(***************************************************************************)
\* the caller is done with what the last call returned: the array is freed,
\* its int variables go out of scope and the finished session is forgotten
CallerReleases ==
    /\ pc = "idle"
    /\ ret # NoRes
    /\ ret' = NoRes
    /\ width' = 0 /\ height' = 0 /\ screen_count' = 0
    /\ smc' = NoSmc
    /\ trace' = NoTrace
    /\ UNCHANGED <<backend, connector_mapping, pc, kwin_ptr, kwin, mutter_ptr,
                   mstate>>

(***************************************************************************)
(* Discovery: create, backend events and get_resolutions.                  *)
(***************************************************************************)
Init ==
    /\ backend \in {"kwin", "mutter"}
    /\ connector_mapping \in MappingTables
    /\ pc = "idle"
    /\ kwin_ptr = "NULL"
    /\ kwin = NewKWin
    /\ mutter_ptr = "NULL"
    /\ mstate = NoMState
    /\ width = 0 /\ height = 0 /\ screen_count = 0
    /\ ret = NoRes
    /\ smc = NoSmc
    /\ trace = NoTrace

NextDisc ==
    \/ \E c \in BOOLEAN : KWinCreate(c)
    \/ KWinCreateRoundtrip
    \/ KWinCreateEnd
    \/ RegistryEvent
    \/ DescribeEvent
    \/ \E v \in CallerInts : KWinGetResolutions(v[1], v[2], v[3])
    \/ KWinGetResolutionsEnd
    \/ \E p \in BOOLEAN : MutterCreate(p)
    \/ MutterEnv
    \/ CallerReleases
    \/ \E v \in CallerInts, a \in BOOLEAN :
           MutterGetResolutions(v[1], v[2], v[3], a)

SpecDisc == Init /\ [][NextDisc]_vars


(***************************************************************************)
(* The KWin session: create, the registry, outputs that become ready, and  *)
(* set_monitor_config with its wait loop.                                  *)
(***************************************************************************)
\* layout entries VDAgentMonConfig the caller may ask for
LayoutEntries == {[width |-> 2, height |-> 1, x |-> 0, y |-> 0],
                  [width |-> 4, height |-> 2, x |-> 3, y |-> 0]}

RECURSIVE SeqsUpTo(_, _)
\* the sequences over S of length at most n
SeqsUpTo(S, n) ==
    IF n = 0 THEN {<<>>}
    ELSE LET shorter == SeqsUpTo(S, n - 1)
         IN shorter \cup {Append(q, e) : q \in shorter, e \in S}

\* the layouts a caller may pass
Layouts == SeqsUpTo(LayoutEntries, MaxMonitors)

\* the outputs become ready
ReadyEvent == \E k \in OutputIdx : output_handle_done(k)

\* the KWin backend is present and the caller's table is empty
InitSession == Init /\ backend = "kwin" /\ connector_mapping = <<>>

Next ==
    \/ \E c \in BOOLEAN : KWinCreate(c)
    \/ KWinCreateRoundtrip
    \/ KWinCreateEnd
    \/ RegistryEvent
    \/ ReadyEvent
    \/ \E p \in BOOLEAN, m \in SeqsUpTo(LayoutEntries, MaxMonitors) :
           KWinSetMonitorConfig(p, m)
    \/ \E c \in BOOLEAN : KWinSmcConfigure(c)
    \/ KWinSmcBuildEntry
    \/ KWinSmcApply
    \/ KWinSmcPoll
    \/ KWinSmcPolled
    \/ KWinSmcFinish
    \/ config_handle_applied
    \/ config_handle_failed
    \/ CallerReleases

Spec == InitSession /\ [][Next]_vars


\* the caller thread keeps running and every roundtrip of the wait loop
\* returns
SpecFair == Spec /\ WF_vars(KWinSmcPoll) /\ WF_vars(KWinSmcPolled)
                 /\ WF_vars(KWinSmcFinish)

(***************************************************************************)
(* The Mode Selector as a function of its arguments.                       *)
(***************************************************************************)
\* modes a selector call may be handed
MaxSelect == 3

\* a size no mode of Sizes has
NoSuchSize == <<9, 9>>

\* a mode_id that is NULL (the mode ids of the model are tuples)
NoModeId == <<>>

RECURSIVE MutterFindMode_LastWins(_, _, _, _, _, _)
\* the later of two modes of equal refresh rate wins
MutterFindMode_LastWins(modes, w, h, i, best, best_refresh) ==
    IF i > Len(modes) THEN best
    ELSE IF modes[i].width = w /\ modes[i].height = h
            /\ (best = 0 \/ modes[i].refresh_rate >= best_refresh)
         THEN MutterFindMode_LastWins(modes, w, h, i + 1, i, modes[i].refresh_rate)
         ELSE MutterFindMode_LastWins(modes, w, h, i + 1, best, best_refresh)

RECURSIVE MutterFindMode(_, _, _, _, _, _)
\* the first loop of find_mode_for_resolution from mode i on; best = 0 is NULL
MutterFindMode(modes, w, h, i, best, best_refresh) ==
    IF i > Len(modes) THEN best
    ELSE IF modes[i].width = w /\ modes[i].height = h
            /\ (best = 0 \/ modes[i].refresh_rate > best_refresh)
         THEN MutterFindMode(modes, w, h, i + 1, i, modes[i].refresh_rate)
         ELSE MutterFindMode(modes, w, h, i + 1, best, best_refresh)

\* find_mode_for_resolution: the mode_id of the best mode, NULL when none
find_mode_for_resolution(info, w, h) ==
    LET best == MutterFindMode(info.modes, w, h, 1, 0, 0)
    IN IF best # 0 THEN info.modes[best].mode_id ELSE NoModeId

\* what a mode announces: <<width, height, refresh>>
ModeSpecs == {<<s[1], s[2], r>> : s \in Sizes, r \in Refreshes}

\* a KWinMode array and a MutterModeInfo array holding the modes of list l
KWinModes(l) ==
    [i \in 1..Len(l) |-> [NewMode(<<1, i>>) EXCEPT !.width = l[i][1],
                                                   !.height = l[i][2],
                                                   !.refresh = l[i][3]]]
MutterModes(l) ==
    [i \in 1..Len(l) |-> [mode_id |-> <<"mode", i>>, width |-> l[i][1],
                          height |-> l[i][2], refresh_rate |-> l[i][3],
                          is_current |-> FALSE]]

\* the selector is handed one output with some mode list
InitSelect ==
    /\ Init
    /\ connector_mapping = <<>>

SelectFrame == <<backend, connector_mapping, pc, kwin_ptr, mutter_ptr,
                 width, height, screen_count, smc, trace>>

\* kwin_find_mode(output, w, h) on an output whose modes are those of l
KWinSelect(l, w, h) ==
    /\ backend = "kwin"
    /\ ret = NoRes
    /\ kwin' = [kwin EXCEPT !.outputs = <<[NewOutput EXCEPT !.modes = KWinModes(l)]>>]
    /\ LET best == kwin_find_mode(kwin'.outputs[1], w, h)
       IN ret' = [op |-> "find_mode", ok |-> best # 0,
                  res |-> <<w, h, IF best # 0 THEN kwin'.outputs[1].modes[best].mode
                                  ELSE NoModeId>>,
                  value |-> 0]
    /\ UNCHANGED <<SelectFrame, mstate>>

\* find_mode_for_resolution(info, w, h) on a monitor whose modes are those of l
MutterSelect(l, w, h) ==
    /\ backend = "mutter"
    /\ ret = NoRes
    /\ mstate' = [mstate EXCEPT !.monitors =
                      <<[connector |-> "A", modes |-> MutterModes(l)]>>]
    /\ LET id == find_mode_for_resolution(mstate'.monitors[1], w, h)
       IN ret' = [op |-> "find_mode", ok |-> id # NoModeId,
                  res |-> <<w, h, id>>, value |-> 0]
    /\ UNCHANGED <<SelectFrame, kwin>>

NextSelect ==
    \/ \E l \in SeqsUpTo(ModeSpecs, MaxSelect), s \in Sizes \cup {NoSuchSize} :
           KWinSelect(l, s[1], s[2])
    \/ \E l \in SeqsUpTo(ModeSpecs, MaxSelect), s \in Sizes \cup {NoSuchSize} :
           MutterSelect(l, s[1], s[2])

SpecSelect == InitSelect /\ [][NextSelect]_vars

(***************************************************************************)
(* Mutter: set_monitor_config.                                             *)
(***************************************************************************)
RECURSIVE find_logical_monitor_info(_, _, _)
\* find_logical_monitor_info from logical monitor l on: position, scale,
\* transform and primary flag of the first that holds the connector, else the
\* defaults stored before the loop
find_logical_monitor_info(logical_monitors, connector, l) ==
    IF l > Len(logical_monitors)
    THEN [x |-> 0, y |-> 0, scale |-> 1, transform |-> 0, is_primary |-> FALSE]
    ELSE IF connector \in logical_monitors[l].monitors
         THEN [x |-> logical_monitors[l].x, y |-> logical_monitors[l].y,
               scale |-> logical_monitors[l].scale,
               transform |-> logical_monitors[l].transform,
               is_primary |-> logical_monitors[l].primary]
         ELSE find_logical_monitor_info(logical_monitors, connector, l + 1)

\* the MutterMonitorInfo parse_monitors_from_state makes of one monitor
MutterMonitorInfo(state, mon) ==
    LET c == FirstCurrent(mon.modes, 1)
        lm == find_logical_monitor_info(state.logical_monitors, mon.connector, 1)
    IN [connector |-> mon.connector,
        modes |-> mon.modes,
        current_mode_id |-> IF c # 0 THEN mon.modes[c].mode_id ELSE NoModeId,
        current_x |-> lm.x, current_y |-> lm.y,
        current_scale |-> lm.scale, current_transform |-> lm.transform,
        is_primary |-> lm.is_primary,
        is_enabled |-> (c # 0),
        display_id |-> IF Mapped(mon.connector)
                       THEN connector_mapping[mon.connector] ELSE -1]

parse_monitors_from_state(state) ==
    [k \in 1..Len(state.monitors) |-> MutterMonitorInfo(state, state.monitors[k])]

RECURSIVE MutterFindMapped(_, _, _)
\* the inner loop of vdagent_mutter_set_monitor_config: the first monitor from
\* j on whose display_id is i, 0 when there is none
MutterFindMapped(monitors, i, j) ==
    IF j > Len(monitors) THEN 0
    ELSE IF monitors[j].display_id = i THEN j
         ELSE MutterFindMapped(monitors, i, j + 1)

\* the monitor entry i (counted from 0) is applied to, 0 when there is none:
\* by display_id, else "If no mapping found, use monitor index"
MutterTarget(monitors, i) ==
    LET j == MutterFindMapped(monitors, i, 1)
    IN IF j # 0 THEN j
       ELSE IF i < Len(monitors) THEN i + 1 ELSE 0

\* the mode entry mc is given on monitor target: the best mode of the
\* requested size, else the current mode, else NULL
MutterEntryMode(target, mc) ==
    LET mode_id == find_mode_for_resolution(target, mc.width, mc.height)
    IN IF mode_id # NoModeId THEN mode_id ELSE target.current_mode_id

\* the logical monitor one iteration of the loop adds for entry i (counted
\* from 0), none when the entry is skipped
MutterEntryRequests(monitors, i, mc) ==
    LET j == MutterTarget(monitors, i)
    IN IF j = 0 THEN <<>>
       ELSE LET target == monitors[j]
                mode_id == MutterEntryMode(target, mc)
            IN IF mode_id = NoModeId THEN <<>>
               ELSE <<Request("logical_monitor", j,
                              <<mc.x, mc.y,
                                IF target.current_scale > 0
                                THEN target.current_scale ELSE 1,
                                target.current_transform,
                                i = 0,
                                target.connector, mode_id>>)>>

RECURSIVE MutterBuild(_, _, _)
\* the loop "Configure monitors according to mon_config" from entry i on
MutterBuild(monitors, mon_config, i) ==
    IF i >= Len(mon_config) THEN <<>>
    ELSE MutterEntryRequests(monitors, i, mon_config[i + 1])
         \o MutterBuild(monitors, mon_config, i + 1)

\* vdagent_mutter_set_monitor_config: present tells whether mon_config is
\* non-NULL, answered whether GetCurrentState succeeded, accepted whether
\* ApplyMonitorsConfig returned a result
MutterSetMonitorConfig(present, mon_config, answered, accepted) ==
    /\ pc = "idle"
    /\ backend = "mutter"
    /\ IF mutter_ptr = "NULL" \/ ~present \/ ~answered
       THEN /\ smc' = NoSmc
            /\ trace' = NoTrace
            /\ ret' = [NoRes EXCEPT !.op = "set_monitor_config", !.value = -1]
       ELSE /\ smc' = [NoSmc EXCEPT
                         !.mon_config = mon_config,
                         !.i = Len(mon_config),
                         !.targets = [i \in 1..Len(mon_config) |->
                                        MutterTarget(parse_monitors_from_state(mstate),
                                                     i - 1)],
                         !.ops = Append(MutterBuild(parse_monitors_from_state(mstate),
                                                    mon_config, 0),
                                        Request("apply", 0, <<>>))]
            /\ trace' = [NoTrace EXCEPT !.applies = 1,
                                        !.applied = accepted,
                                        !.failed = ~accepted]
            /\ ret' = [NoRes EXCEPT !.op = "set_monitor_config",
                                    !.ok = accepted,
                                    !.value = IF accepted THEN 0 ELSE -1]
    /\ UNCHANGED <<backend, connector_mapping, pc, kwin_ptr, kwin, mutter_ptr,
                   mstate, callerVars>>

(***************************************************************************)
(* Sessions on either backend: which output an entry goes to.  The table   *)
(* is any table; the compositor names its outputs (KWin) or reports        *)
(* monitors with their modes (Mutter).                                     *)
(***************************************************************************)
\* the compositor sends its registry and output events before a configuration
\* is applied; what it sends while a session waits cannot reach operations
\* that are already built, and is left to Spec
BeforeWait == pc # "smc_wait_rt"

\* the callbacks that name an output
NameEvent ==
    /\ BeforeWait
    /\ \E k \in OutputIdx :
           \E n \in Connectors \ OtherNames(k) : output_handle_name(k, n)

\* the caller has released what the last call returned before it calls again
Fresh == ret = NoRes

\* the steps of vdagent_kwin_set_monitor_config
KWinSession ==
    \/ /\ Fresh
       /\ \E p \in BOOLEAN, m \in SeqsUpTo(LayoutEntries, MaxMonitors) :
              KWinSetMonitorConfig(p, m)
    \/ \E c \in BOOLEAN : KWinSmcConfigure(c)
    \/ KWinSmcBuildEntry
    \/ KWinSmcApply
    \/ KWinSmcPoll
    \/ KWinSmcPolled
    \/ KWinSmcFinish

\* Mutter reports monitors, their modes, and turns monitors on at the origin
MutterMonitors ==
    \/ \E c \in Connectors : MutterMonitorAdded(c)
    \/ \E k \in 1..MaxOutputs, s \in Sizes : MutterModeAdded(k, s[1], s[2], 60)
    \/ \E k \in 1..MaxOutputs, m \in 1..MaxModes :
           MutterMonitorActivated(k, m, 0, 0, 1, 0)

NextTarget ==
    \/ \E c \in BOOLEAN : KWinCreate(c)
    \/ KWinCreateRoundtrip
    \/ KWinCreateEnd
    \/ BeforeWait /\ RegistryEvent
    \/ NameEvent
    \/ KWinSession
    \/ config_handle_applied
    \/ config_handle_failed
    \/ \E p \in BOOLEAN : MutterCreate(p)
    \/ MutterMonitors
    \/ /\ Fresh
       /\ \E p, a, r \in BOOLEAN, m \in SeqsUpTo(LayoutEntries, MaxMonitors) :
              MutterSetMonitorConfig(p, m, a, r)
    \/ CallerReleases

SpecTarget == Init /\ [][NextTarget]_vars

(***************************************************************************)
(* Discovery asked twice.                                                  *)
(***************************************************************************)
\* vdagent_kwin_get_resolutions called while the caller still holds the array
\* of the last call, with a roundtrip in which the compositor sends nothing:
\* the call runs from its test to its return with no listener in between
KWinGetResolutionsQuiet(w0, h0, c0) ==
    /\ pc = "idle"
    /\ backend = "kwin"
    /\ kwin_ptr # "NULL"
    /\ kwin.output_management
    /\ ret.op = "get_resolutions"
    /\ LET acc == KWinScan(kwin.outputs, 1, KWinScanStart)
       IN /\ width' = acc.width
          /\ height' = acc.height
          /\ screen_count' = acc.screen_count
          /\ ret' = [op |-> "get_resolutions", ok |-> TRUE,
                     res |-> FallbackByIndex(acc.res_array, acc.not_found_array),
                     value |-> 0]
    /\ UNCHANGED <<backend, connector_mapping, pc, kwin_ptr, kwin,
                   mutter_ptr, mstate, smc, trace>>

NextAgain ==
    \/ NextDisc
    \/ \E v \in CallerInts : KWinGetResolutionsQuiet(v[1], v[2], v[3])

SpecAgain == Init /\ [][NextAgain]_vars

(***************************************************************************)
(* Sessions on either backend: what is requested for an output.  The table *)
(* is empty, so entries go to outputs by position; the compositor reports  *)
(* modes, the current mode, scale and transform.                           *)
(***************************************************************************)
\* the output whose modes, scale and transform the KWin compositor reports;
\* the others keep what registry_handle_global stored
Described == 1

\* the callbacks that tell what an output offers and how it is set up
SetupEvent ==
    /\ BeforeWait
    /\ Described \in OutputIdx
    /\ \/ \E moved \in BOOLEAN : output_handle_mode(Described, moved)
       \/ \E m \in 1..MaxModes : output_handle_current_mode(Described, m)
       \/ \E s \in FixedScales : output_handle_scale(Described, s)
       \/ \E t \in Transforms : output_handle_geometry(Described, 0, 0, t)

\* Mutter reports monitors, their modes, and turns monitors on at the origin
\* with some scale and transform
MutterSetup ==
    \/ \E c \in Connectors : MutterMonitorAdded(c)
    \/ \E k \in 1..MaxOutputs, s \in Sizes : MutterModeAdded(k, s[1], s[2], 60)
    \/ \E k \in 1..MaxOutputs, m \in 1..MaxModes, s \in Scales, t \in Transforms :
           MutterMonitorActivated(k, m, 0, 0, s, t)

InitOps == Init /\ connector_mapping = <<>>

NextOps ==
    \/ \E c \in BOOLEAN : KWinCreate(c)
    \/ KWinCreateRoundtrip
    \/ KWinCreateEnd
    \/ BeforeWait /\ RegistryEvent
    \/ SetupEvent
    \/ KWinSession
    \/ config_handle_applied
    \/ config_handle_failed
    \/ \E p \in BOOLEAN : MutterCreate(p)
    \/ MutterSetup
    \/ /\ Fresh
       /\ \E p, a, r \in BOOLEAN, m \in SeqsUpTo(LayoutEntries, MaxMonitors) :
              MutterSetMonitorConfig(p, m, a, r)
    \/ CallerReleases

SpecOps == InitOps /\ [][NextOps]_vars

(***************************************************************************)
(* The modes of a KWin output: the compositor announces mode objects, then *)
(* each mode's size, refresh rate and whether it is preferred, then the    *)
(* current mode and done.                                                  *)
(***************************************************************************)
\* the callbacks that announce the modes of output Described
AnnounceEvent ==
    /\ Described \in OutputIdx
    /\ \/ \E moved \in BOOLEAN : output_handle_mode(Described, moved)
       \/ \E m \in 1..MaxModes, s \in Sizes :
              mode_handle_size(Described, m, s[1], s[2])
       \/ \E m \in 1..MaxModes, r \in Refreshes :
              mode_handle_refresh(Described, m, r)
       \/ \E m \in 1..MaxModes : mode_handle_preferred(Described, m)
       \/ \E m \in 1..MaxModes : output_handle_current_mode(Described, m)
       \/ output_handle_done(Described)

NextModes ==
    \/ \E c \in BOOLEAN : KWinCreate(c)
    \/ KWinCreateRoundtrip
    \/ KWinCreateEnd
    \/ RegistryEvent
    \/ AnnounceEvent
    \/ \E v \in CallerInts : KWinGetResolutions(v[1], v[2], v[3])
    \/ KWinGetResolutionsEnd
    \/ CallerReleases

SpecModes == InitSession /\ [][NextModes]_vars

(***************************************************************************)
(* The life of an adapter: create, is_available, the calls, destroy.  A    *)
(* caller's pointer is "freed" while it still points to an adapter that    *)
(* destroy has freed.                                                      *)
(***************************************************************************)
LifeFrame == <<backend, connector_mapping, mstate, width, height, screen_count,
               smc, trace>>

\* destroy has returned: released tells that it released only what was held
Destroyed(released) ==
    [NoRes EXCEPT !.op = "destroy", !.ok = released,
                  !.value = IF released THEN 0 ELSE -1]

\* g_hash_table_destroy in the place of g_hash_table_unref
KWinDestroy_ClearsTable ==
    /\ pc = "idle"
    /\ backend = "kwin"
    /\ IF kwin_ptr = "NULL"
       THEN /\ ret' = Destroyed(TRUE)
            /\ UNCHANGED <<pc, kwin_ptr, kwin, connector_mapping>>
       ELSE IF kwin_ptr = "live"
            THEN /\ kwin' = DestroyedKWin
                 /\ kwin_ptr' = "freed"
                 /\ connector_mapping' = <<>>
                 /\ ret' = Destroyed(TRUE)
                 /\ UNCHANGED pc
            ELSE /\ ret' = Destroyed(FALSE)
                 /\ pc' \in {"idle", "aborted"}
                 /\ UNCHANGED <<kwin_ptr, kwin, connector_mapping>>
    /\ UNCHANGED <<backend, mutter_ptr, mstate, width, height, screen_count,
                   smc, trace>>

\* vdagent_kwin_destroy.  With NULL it returns at once.  With an adapter it
\* releases the configuration, the outputs with their modes, the management
\* object, the registry, the display and its reference on the table, and
\* frees the struct.  With a pointer to a freed adapter it reads the freed
\* struct and releases again what it finds there: the process ends, or the
\* call returns having released what was not held.
KWinDestroy ==
    /\ pc = "idle"
    /\ backend = "kwin"
    /\ IF kwin_ptr = "NULL"
       THEN /\ ret' = Destroyed(TRUE)
            /\ UNCHANGED <<pc, kwin_ptr, kwin>>
       ELSE IF kwin_ptr = "live"
            THEN /\ kwin' = DestroyedKWin
                 /\ kwin_ptr' = "freed"
                 /\ ret' = Destroyed(TRUE)
                 /\ UNCHANGED pc
            ELSE /\ ret' = Destroyed(FALSE)
                 /\ pc' \in {"idle", "aborted"}
                 /\ UNCHANGED <<kwin_ptr, kwin>>
    /\ UNCHANGED <<LifeFrame, mutter_ptr>>

\* vdagent_mutter_destroy.  There is no test of the pointer: with NULL,
\* g_clear_object reads the proxy field at address 0 and the process ends.
\* With an adapter the proxy and the reference on the table are released and
\* the struct is freed.  With a pointer to a freed adapter the freed struct is
\* read and released again, as in vdagent_kwin_destroy.
MutterDestroy ==
    /\ pc = "idle"
    /\ backend = "mutter"
    /\ IF mutter_ptr = "NULL"
       THEN /\ ret' = Destroyed(FALSE)
            /\ pc' = "aborted"
            /\ UNCHANGED mutter_ptr
       ELSE IF mutter_ptr = "live"
            THEN /\ mutter_ptr' = "freed"
                 /\ ret' = Destroyed(TRUE)
                 /\ UNCHANGED pc
            ELSE /\ ret' = Destroyed(FALSE)
                 /\ pc' \in {"idle", "aborted"}
                 /\ UNCHANGED mutter_ptr
    /\ UNCHANGED <<LifeFrame, kwin_ptr, kwin>>

\* the caller sets its pointer to NULL after destroy
CallerForgets ==
    /\ pc = "idle"
    /\ kwin_ptr = "freed" \/ mutter_ptr = "freed"
    /\ kwin_ptr' = IF kwin_ptr = "freed" THEN "NULL" ELSE kwin_ptr
    /\ mutter_ptr' = IF mutter_ptr = "freed" THEN "NULL" ELSE mutter_ptr
    /\ UNCHANGED <<LifeFrame, pc, kwin, ret>>

\* vdagent_kwin_is_available
KWinIsAvailable ==
    /\ pc = "idle"
    /\ backend = "kwin"
    /\ ret' = [NoRes EXCEPT !.op = "is_available",
                            !.ok = (kwin_ptr # "NULL" /\ kwin.output_management)]
    /\ UNCHANGED <<LifeFrame, pc, kwin_ptr, kwin, mutter_ptr>>

\* vdagent_mutter_is_available: owned tells whether the bus name
\* org.gnome.Mutter.DisplayConfig has an owner when it is asked for
MutterIsAvailable(owned) ==
    /\ pc = "idle"
    /\ backend = "mutter"
    /\ ret' = [NoRes EXCEPT !.op = "is_available",
                            !.ok = (mutter_ptr # "NULL" /\ owned)]
    /\ UNCHANGED <<LifeFrame, pc, kwin_ptr, kwin, mutter_ptr>>

\* the caller passes no pointer to a freed adapter to any call but destroy
Held == kwin_ptr # "freed" /\ mutter_ptr # "freed"

\* the tables of the callers here: none, and both connectors in the order
\* opposite to that of their display ids
LifeTables == {<<>>, [c \in Connectors |-> IF c = "A" THEN 1 ELSE 0]}

InitLife == Init /\ connector_mapping \in LifeTables

\* the compositor announces globals, names outputs, makes them ready and
\* removes them, in the roundtrips of create and get_resolutions; what it
\* sends during a session is left to SpecTarget
LifeEvent ==
    /\ pc \in {"create_rt1", "create_rt2", "gr_rt"}
    /\ \/ RegistryEvent
       \/ NameEvent
       \/ ReadyEvent
       \/ \E k \in 1..MaxOutputs : registry_handle_global_remove(k)

\* vdagent_kwin_set_monitor_config with a compositor that answers within the
\* first roundtrip of the wait; its silence is left to Spec
LifeSession ==
    \/ \E p \in BOOLEAN, m \in Layouts : KWinSetMonitorConfig(p, m)
    \/ \E c \in BOOLEAN : KWinSmcConfigure(c)
    \/ KWinSmcBuildEntry
    \/ KWinSmcApply
    \/ KWinSmcPoll
    \/ (kwin.config_applied \/ kwin.config_failed) /\ KWinSmcPolled
    \/ KWinSmcFinish

\* the calls a caller makes once it has released what the last one returned
LifeCall ==
    /\ Fresh
    /\ \/ /\ Held
          /\ \/ \E c \in BOOLEAN : KWinCreate(c)
             \/ \E p \in BOOLEAN : MutterCreate(p)
             \/ KWinIsAvailable
             \/ \E o \in BOOLEAN : MutterIsAvailable(o)
             \/ \E v \in CallerInts : KWinGetResolutions(v[1], v[2], v[3])
             \/ \E v \in CallerInts, a \in BOOLEAN :
                    MutterGetResolutions(v[1], v[2], v[3], a)
             \/ \E p, a, r \in BOOLEAN, m \in Layouts :
                    MutterSetMonitorConfig(p, m, a, r)
       \/ KWinDestroy
       \/ MutterDestroy

NextLife ==
    \/ LifeCall
    \/ KWinCreateRoundtrip
    \/ KWinCreateEnd
    \/ LifeEvent
    \/ KWinGetResolutionsEnd
    \/ (Fresh /\ Held) /\ LifeSession
    \/ config_handle_applied
    \/ config_handle_failed
    \/ MutterMonitors
    \/ CallerForgets
    \/ CallerReleases

SpecLife == InitLife /\ [][NextLife]_vars

(***************************************************************************)
(* What the claims speak of.                                               *)
(***************************************************************************)
\* a get_resolutions call has returned an array
GotResolutions == pc = "idle" /\ ret.op = "get_resolutions" /\ ret.ok

\* the least element of a non-empty set of numbers
Least(S) == CHOOSE m \in S : \A n \in S : m <= n

\* the greatest element of a set of numbers, 0 for the empty set
Greatest(S) == IF S = {} THEN 0 ELSE CHOOSE m \in S : \A n \in S : n <= m

\* a KWin output as discovery sees it
KWinView(o) == [name |-> o.name, x |-> o.x, y |-> o.y, width |-> o.width,
                height |-> o.height, usable |-> o.done /\ o.enabled]

\* a Mutter monitor as discovery sees it: its size is that of its current
\* mode, its position that of the logical monitor that holds its connector
MutterView(mon) ==
    LET cur == {m \in 1..Len(mon.modes) : mon.modes[m].is_current}
        lms == {l \in 1..Len(mstate.logical_monitors) :
                    mon.connector \in mstate.logical_monitors[l].monitors}
    IN [name |-> mon.connector,
        x |-> IF lms = {} THEN 0 ELSE mstate.logical_monitors[Least(lms)].x,
        y |-> IF lms = {} THEN 0 ELSE mstate.logical_monitors[Least(lms)].y,
        width |-> IF cur = {} THEN 0 ELSE mon.modes[Least(cur)].width,
        height |-> IF cur = {} THEN 0 ELSE mon.modes[Least(cur)].height,
        usable |-> cur # {}]

\* the snapshot of the backend that is present, in snapshot order
Snapshot ==
    IF backend = "kwin"
    THEN [k \in 1..Len(kwin.outputs) |-> KWinView(kwin.outputs[k])]
    ELSE [k \in 1..Len(mstate.monitors) |-> MutterView(mstate.monitors[k])]

IsUsable(o) == o.usable
IsMapped(o) == o.name \in DOMAIN connector_mapping

\* the enabled and ready outputs, and those of them the table knows
Usable == SelectSeq(Snapshot, IsUsable)
UsableMapped == SelectSeq(Usable, IsMapped)

\* the configuration session of the running or last set_monitor_config
SessionOver == pc = "idle" /\ smc.config = "destroyed"
SessionState ==
    IF pc = "smc_build" THEN "Building"
    ELSE IF pc \in {"smc_wait", "smc_wait_rt"} THEN "Submitted"
    ELSE IF SessionOver
         THEN IF kwin.config_failed THEN "Rejected"
              ELSE IF kwin.config_applied THEN "Confirmed" ELSE "TimedOut"
         ELSE "None"

(***************************************************************************)
(* Claims.                                                                 *)
(***************************************************************************)
\* C1: after every successful get_resolutions, on either backend and
\* whatever the caller's variables held before, the desktop width is the
\* greatest x+width and the desktop height the greatest y+height over the
\* enabled and ready outputs, 0 when there are none.
C1_DesktopBounds ==
    GotResolutions =>
        /\ width = Greatest({Usable[k].x + Usable[k].width : k \in 1..Len(Usable)})
        /\ height = Greatest({Usable[k].y + Usable[k].height : k \in 1..Len(Usable)})

\* C2: no two records of a returned list carry the same display_id.
C2_UniqueDisplayIds ==
    GotResolutions =>
        \A a, b \in 1..Len(ret.res) :
            a # b => ret.res[a].display_id # ret.res[b].display_id

\* C3: a session only moves Building -> Submitted -> one of Confirmed,
\* Rejected, TimedOut; the apply request is sent exactly once, at the step
\* from Building to Submitted; a terminal state is entered only from
\* Submitted and is kept until the session is forgotten.
C3_SessionOrder ==
    [][LET a == SessionState
           b == SessionState'
           terminal == {"Confirmed", "Rejected", "TimedOut"}
       IN /\ a = "None" => b \in {"None", "Building"}
          /\ a = "Building" => b \in {"Building", "Submitted"}
          /\ a = "Submitted" => b \in {"Submitted"} \cup terminal
          /\ a \in terminal => b \in {a, "None"}
          /\ (a = "Building" /\ b = "Submitted")
                 <=> trace'.applies = trace.applies + 1
          /\ b \in {"Submitted"} \cup terminal => trace'.applies = 1
          /\ b = "Building" => trace'.applies = 0]_vars

C3_Witness ==
    /\ SessionState = "Confirmed"
    /\ trace.applies = 1
    /\ Len(smc.ops) > 1

\* C4: a session whose wait saw neither the applied nor the failed signal
\* ends TimedOut and set_monitor_config returns -1.
C4_TimeoutFails ==
    (SessionOver /\ ~trace.applied /\ ~trace.failed) =>
        /\ SessionState = "TimedOut"
        /\ ret.op = "set_monitor_config"
        /\ ret.value = -1

C4_Witness ==
    /\ SessionOver
    /\ ~trace.applied /\ ~trace.failed
    /\ trace.sleeps = 50
    /\ ret.value = -1

\* C5: the wait makes at most 50 iterations, each with exactly one roundtrip
\* before the flags are looked at again; without a signal the call returns
\* after the 50th; and a submitted session always returns.
C5_WaitShape ==
    (SessionState \in {"Submitted", "Confirmed", "Rejected", "TimedOut"}) =>
        /\ trace.roundtrips <= 50
        /\ trace.sleeps <= trace.roundtrips
        /\ trace.roundtrips <= trace.sleeps + 1
        /\ (pc = "smc_wait" /\ ~trace.applied /\ ~trace.failed)
               => trace.roundtrips = trace.sleeps
        /\ SessionState = "TimedOut" => trace.roundtrips = 50

C5_BoundedWait ==
    /\ []C5_WaitShape
    /\ (SessionState = "Submitted") ~> SessionOver

C5_Witness ==
    /\ SessionState = "TimedOut"
    /\ trace.roundtrips = 50
    /\ trace.sleeps = 50

\* C6: once the failed signal has been delivered to a waiting session, the
\* wait loop makes no further roundtrip and no further sleep, and the call
\* returns -1.
C6_RejectedReturnsAtOnce ==
    [][(SessionState = "Submitted" /\ trace.failed) =>
           /\ trace'.roundtrips = trace.roundtrips
           /\ trace'.sleeps = trace.sleeps
           /\ pc' \in {"smc_wait", "smc_wait_rt", "idle"}
           /\ pc = "smc_wait" => pc' = "idle"
           /\ pc' = "idle" => (ret'.op = "set_monitor_config" /\ ret'.value = -1)]_vars

C6_Witness ==
    /\ SessionState = "Rejected"
    /\ trace.failed /\ ~trace.applied
    /\ trace.roundtrips = 2
    /\ trace.sleeps = 1
    /\ ret.value = -1

\* C7: set_monitor_config returns 0 exactly when the applied signal was
\* delivered during the wait of this session and the failed signal was not;
\* with both delivered it returns -1.
C7_SuccessIffConfirmed ==
    (pc = "idle" /\ ret.op = "set_monitor_config") =>
        (ret.value = 0 <=> (trace.applied /\ ~trace.failed))

C7_Witness ==
    /\ SessionOver
    /\ trace.applied /\ trace.failed
    /\ ret.op = "set_monitor_config"
    /\ ret.value = -1

\* the record discovery makes of output o under display id
RecordOf(o, id) == Resolution(o.x, o.y, o.width, o.height, id)

\* C8: when some enabled and ready output has a connector the table knows,
\* the list holds exactly those outputs, in snapshot order, each under the id
\* the table gives its connector, and nothing for the others.
C8_AllOrNothing ==
    (GotResolutions /\ Len(UsableMapped) > 0) =>
        ret.res = [k \in 1..Len(UsableMapped) |->
                      RecordOf(UsableMapped[k], connector_mapping[UsableMapped[k].name])]

C8_Witness ==
    /\ GotResolutions
    /\ Len(Usable) = 2
    /\ Len(UsableMapped) = 1
    /\ Len(ret.res) = 1
    /\ ret.res[1].display_id = 1

\* C9: when no enabled and ready output has a connector the table knows, the
\* list holds every enabled and ready output in discovery order and the
\* record at position k (from 0) has display_id k.
C9_FallbackByIndex ==
    (GotResolutions /\ Len(UsableMapped) = 0) =>
        ret.res = [k \in 1..Len(Usable) |-> RecordOf(Usable[k], k - 1)]

C9_Witness ==
    /\ GotResolutions
    /\ DOMAIN connector_mapping # {}
    /\ Len(UsableMapped) = 0
    /\ Len(ret.res) = 2
    /\ ret.res[2].display_id = 1

\* C10: the screen_count of a successful get_resolutions is the number of
\* enabled and ready outputs of the snapshot, on both backends.
C10_ScreenCount ==
    GotResolutions => screen_count = Len(Usable)

\* the mode list, the rates and the identities a selector call was handed
SelectedModes ==
    IF backend = "kwin" THEN kwin.outputs[1].modes ELSE mstate.monitors[1].modes
SelectedRate(i) ==
    IF backend = "kwin" THEN SelectedModes[i].refresh
    ELSE SelectedModes[i].refresh_rate
SelectedId(i) ==
    IF backend = "kwin" THEN SelectedModes[i].mode ELSE SelectedModes[i].mode_id

\* C11: for every mode list and every (width, height) the Mode Selector
\* returns None when no mode has exactly that size, and otherwise the mode of
\* that size with the highest refresh rate, the earliest of them in discovery
\* order when several have that rate.
C11_ModeSelector ==
    ret.op = "find_mode" =>
        LET matches == {i \in 1..Len(SelectedModes) :
                            /\ SelectedModes[i].width = ret.res[1]
                            /\ SelectedModes[i].height = ret.res[2]}
            top == {i \in matches : \A j \in matches : SelectedRate(j) <= SelectedRate(i)}
        IN IF matches = {} THEN ret.res[3] = NoModeId /\ ~ret.ok
           ELSE ret.res[3] = SelectedId(Least(top)) /\ ret.ok

C11_Witness ==
    /\ ret.op = "find_mode"
    /\ backend = "mutter"
    /\ Len(SelectedModes) = 3
    /\ \A i \in 1..3 : SelectedModes[i].width = ret.res[1]
                       /\ SelectedModes[i].height = ret.res[2]
    /\ SelectedRate(1) = 60 /\ SelectedRate(2) = 75 /\ SelectedRate(3) = 75
    /\ ret.res[3] = SelectedId(2)

\* the KWin outputs that have had their done event and are enabled
KWinReady == {k \in 1..Len(kwin.outputs) :
                  kwin.outputs[k].done /\ kwin.outputs[k].enabled}

\* C18: whatever events the KWin backend has sent, every record of a returned
\* list is that of an output that is done and enabled, there are no more
\* records than such outputs, and screen_count and the desktop size are taken
\* over those outputs only.
C18_OnlyReadyOutputs ==
    (GotResolutions /\ backend = "kwin") =>
        /\ Len(ret.res) <= Cardinality(KWinReady)
        /\ \A r \in 1..Len(ret.res) :
               \E k \in KWinReady :
                   /\ ret.res[r].x = kwin.outputs[k].x
                   /\ ret.res[r].y = kwin.outputs[k].y
                   /\ ret.res[r].width = kwin.outputs[k].width
                   /\ ret.res[r].height = kwin.outputs[k].height
        /\ screen_count = Cardinality(KWinReady)
        /\ width = Greatest({kwin.outputs[k].x + kwin.outputs[k].width : k \in KWinReady})
        /\ height = Greatest({kwin.outputs[k].y + kwin.outputs[k].height : k \in KWinReady})

C18_Witness ==
    /\ GotResolutions /\ backend = "kwin"
    /\ Len(kwin.outputs) = 2
    /\ ~kwin.outputs[1].done /\ kwin.outputs[1].enabled
    /\ kwin.outputs[1].x = 1 /\ kwin.outputs[1].y = 3
    /\ kwin.outputs[2].done /\ kwin.outputs[2].enabled
    /\ Len(ret.res) = 1
    /\ screen_count = 1
    /\ width = 0 /\ height = 0

\* C19: set_monitor_config builds no operation for a KWin output that has not
\* had its done event.
C19_NoUnreadyRead ==
    \A n \in 1..Len(smc.ops) :
        smc.ops[n].op # "apply" => kwin.outputs[smc.ops[n].output].done

\* C20: while a session is Submitted the outputs the adapter holds do not
\* change.
C20_FrozenWhilePending ==
    [][(SessionState = "Submitted" /\ SessionState' = "Submitted")
           => kwin'.outputs = kwin.outputs]_vars


(***************************************************************************)
(* Target resolution.                                                      *)
(***************************************************************************)
\* the places in the snapshot of the outputs the table maps to display d
MappedTo(d) ==
    {k \in 1..Len(Snapshot) :
        /\ Snapshot[k].name \in DOMAIN connector_mapping
        /\ connector_mapping[Snapshot[k].name] = d}

\* the place in the snapshot the entry for display d should go to, 0 for none
Resolved(d) ==
    IF MappedTo(d) # {} THEN Least(MappedTo(d))
    ELSE IF d + 1 <= Len(Snapshot) THEN d + 1
    ELSE 0

\* the outputs the requests of the session are sent for
OutputsWithOps ==
    {smc.ops[n].output : n \in {m \in 1..Len(smc.ops) : smc.ops[m].op # "apply"}}

\* C14: while a session is built, the entry for display d goes to the first
\* output of the snapshot whose connector the table maps to d, else to the
\* output at position d of the snapshot if there is one, else to none; requests
\* are sent only for outputs some entry went to, so an entry that went to none
\* adds nothing
C14_TargetResolution ==
    /\ \A n \in 1..Len(smc.targets) : smc.targets[n] = Resolved(n - 1)
    /\ OutputsWithOps \subseteq {smc.targets[n] : n \in 1..Len(smc.targets)} \ {0}
    /\ backend = "kwin" =>
           \A n \in 1..Len(smc.targets) :
               smc.targets[n] # 0 => smc.targets[n] \in OutputsWithOps

\* a layout of two entries on two outputs: the table sends display 0 to the
\* second output, and display 1, which it does not know, goes there by position
C14_Witness ==
    /\ backend = "kwin"
    /\ smc.targets = <<2, 2>>
    /\ MappedTo(0) = {2}
    /\ MappedTo(1) = {}
    /\ Len(smc.ops) > 5


\* the entries of the running or last session that went to no output
SkippedEntries == {n \in 1..Len(smc.targets) : smc.targets[n] = 0}

\* the loop over the layout is over
Built ==
    /\ smc.mon_config # <<>>
    /\ Len(smc.targets) = Len(smc.mon_config)
    /\ pc # "smc_build"

\* C15: an entry that resolves to no output does not fail the call.  Once the
\* loop is over the configuration is applied, with the requests of the entries
\* that have an output (KWin sends some for each) and with nothing but the
\* apply when no entry has one; the call returns 0 exactly when the backend
\* accepted that submission, and -1 otherwise
C15_SkipDoesNotFail ==
    (SkippedEntries # {} /\ Built) =>
        /\ trace.applies = 1
        /\ smc.ops[Len(smc.ops)].op = "apply"
        /\ SkippedEntries = 1..Len(smc.targets) =>
               smc.ops = <<Request("apply", 0, <<>>)>>
        /\ backend = "kwin" =>
               \A n \in (1..Len(smc.targets)) \ SkippedEntries :
                   smc.targets[n] \in OutputsWithOps
        /\ pc = "idle" =>
               /\ ret.op = "set_monitor_config"
               /\ ret.value = IF trace.applied /\ ~trace.failed THEN 0 ELSE -1

\* a layout of two entries with one output: the second entry has no output and
\* the call succeeds with the requests of the first
C15_Witness ==
    /\ backend = "kwin"
    /\ pc = "idle"
    /\ smc.targets = <<1, 0>>
    /\ Len(smc.ops) > 1
    /\ ret.op = "set_monitor_config"
    /\ ret.value = 0


\* the places of the apply request among the requests of the session
ApplyPlaces == {n \in 1..Len(smc.ops) : smc.ops[n].op = "apply"}

\* the apply request is counted as often as it was sent, at most once, and it
\* is the last request, sent when every entry of the layout has been through
\* the loop
C17_ApplyLast ==
    /\ trace.applies = Cardinality(ApplyPlaces)
    /\ trace.applies <= 1
    /\ trace.applies = 1 =>
           /\ ApplyPlaces = {Len(smc.ops)}
           /\ Len(smc.targets) = Len(smc.mon_config)
           /\ smc.i = Len(smc.mon_config)
    /\ (smc.config # "none" /\ pc # "smc_build") => trace.applies = 1
    /\ (backend = "mutter" /\ smc # NoSmc) => trace.applies = 1

\* C17: in each session the apply request is sent exactly once, after the
\* requests of every layout entry, and no request is sent on the configuration
\* after it
C17_ApplyOnceAtEnd ==
    /\ []C17_ApplyLast
    /\ [][SessionState = "Submitted" =>
              /\ smc'.ops = smc.ops
              /\ trace'.applies = trace.applies]_vars

\* two entries on two outputs have had their requests, the apply has been sent
\* and the session waits for the answer
C17_Witness ==
    /\ backend = "kwin"
    /\ pc = "smc_wait_rt"
    /\ smc.targets = <<1, 2>>
    /\ Len(smc.ops) = 9
    /\ trace.applies = 1
    /\ trace.roundtrips = 2


(***************************************************************************)
(* What is requested for an output.                                        *)
(***************************************************************************)
\* the entries of the running or last session that went to output j
EntriesFor(j) == {n \in 1..Len(smc.targets) : smc.targets[n] = j}

\* the modes the adapter holds for output j
ModesOf(j) ==
    IF backend = "kwin" THEN kwin.outputs[j].modes ELSE mstate.monitors[j].modes

\* some mode of output j has the size entry mc asks for
HasMatch(j, mc) ==
    \E m \in 1..Len(ModesOf(j)) :
        ModesOf(j)[m].width = mc.width /\ ModesOf(j)[m].height = mc.height

\* output j has a current mode
HasCurrent(j) ==
    IF backend = "kwin" THEN kwin.outputs[j].current_mode # 0
    ELSE \E m \in 1..Len(ModesOf(j)) : ModesOf(j)[m].is_current

\* output j has no mode for any of its entries: none of the size asked for,
\* and no current mode
NoModeFor(j) ==
    /\ EntriesFor(j) # {}
    /\ ~HasCurrent(j)
    /\ \A n \in EntriesFor(j) : ~HasMatch(j, smc.mon_config[n])

\* C13: an output that has neither a mode of the requested size nor a current
\* mode is skipped: no request at all is sent for it, and the apply is still
\* sent
C13_NoModeNoRequests ==
    \A j \in 1..Len(Snapshot) :
        NoModeFor(j) =>
            /\ j \notin OutputsWithOps
            /\ (Built => trace.applies = 1)


\* the modes requested for output j: the handle of a KWin mode request, the
\* mode id of a Mutter logical monitor
ModesRequested(j) ==
    {IF smc.ops[n].op = "mode" THEN smc.ops[n].args[1] ELSE smc.ops[n].args[7] :
        n \in {m \in 1..Len(smc.ops) :
                  /\ smc.ops[m].op \in {"mode", "logical_monitor"}
                  /\ smc.ops[m].output = j}}

\* what names the current mode of output j to the backend
CurrentModeOf(j) ==
    IF backend = "kwin"
    THEN kwin.outputs[j].modes[kwin.outputs[j].current_mode].mode
    ELSE mstate.monitors[j].modes[FirstCurrent(mstate.monitors[j].modes, 1)].mode_id

\* output j has no mode of the size any of its entries asks for, and has a
\* current mode
OnlyCurrentFor(j) ==
    /\ EntriesFor(j) # {}
    /\ HasCurrent(j)
    /\ \A n \in EntriesFor(j) : ~HasMatch(j, smc.mon_config[n])

\* C12: when the requested size matches no mode of the output and the output
\* has a current mode, the current mode is what is requested for it, and the
\* call returns what the backend answered
C12_FallsBackToCurrent ==
    \A j \in 1..Len(Snapshot) :
        OnlyCurrentFor(j) =>
            /\ ModesRequested(j) = {CurrentModeOf(j)}
            /\ (Built /\ pc = "idle") =>
                   ret.value = IF trace.applied /\ ~trace.failed THEN 0 ELSE -1


\* the scale last reported for output j as the backend sent it: the wl_fixed
\* value of which the stored double is the exact value (KWin), the scale of
\* the logical monitor that holds the connector, 1 when there is none (Mutter)
ObservedScale(j) ==
    IF backend = "kwin"
    THEN CHOOSE s \in FixedScales \cup {256} :
             Double(s, 256) = kwin.outputs[j].scale
    ELSE LET held == {l \in 1..Len(mstate.logical_monitors) :
                         mstate.monitors[j].connector
                             \in mstate.logical_monitors[l].monitors}
         IN IF held = {} THEN 1 ELSE mstate.logical_monitors[Least(held)].scale

\* the transform last reported for output j, 0 when none was
ObservedTransform(j) ==
    IF backend = "kwin" THEN kwin.outputs[j].transform
    ELSE LET held == {l \in 1..Len(mstate.logical_monitors) :
                         mstate.monitors[j].connector
                             \in mstate.logical_monitors[l].monitors}
         IN IF held = {} THEN 0 ELSE mstate.logical_monitors[Least(held)].transform

\* the positions the entries of output j ask for
PositionsFor(j) ==
    {<<smc.mon_config[n].x, smc.mon_config[n].y>> : n \in EntriesFor(j)}

\* request r is what C16 allows for its output
CarriesOver(r) ==
    LET j == r.output
    IN CASE r.op = "enable" -> r.args = <<1>>
         [] r.op = "position" -> r.args \in PositionsFor(j)
         [] r.op = "scale" -> r.args = <<ObservedScale(j)>>
         [] r.op = "transform" -> r.args = <<ObservedTransform(j)>>
         [] r.op = "logical_monitor" ->
                /\ <<r.args[1], r.args[2]>> \in PositionsFor(j)
                /\ r.args[3] = ObservedScale(j)
                /\ r.args[4] = ObservedTransform(j)
         [] OTHER -> TRUE

\* the number of requests op the session sent for output j
Sent(op, j) ==
    Cardinality({n \in 1..Len(smc.ops) :
                    smc.ops[n].op = op /\ smc.ops[n].output = j})

\* C16: every request of a session enables its output, places it where the
\* layout asks, and carries the scale and transform last reported for that
\* output, whatever the layout holds; on KWin each entry that has an output
\* sends one request of each kind
C16_ScaleTransformKept ==
    /\ \A n \in 1..Len(smc.ops) : CarriesOver(smc.ops[n])
    /\ backend = "kwin" =>
           \A j \in 1..Len(kwin.outputs) :
               \A op \in {"enable", "position", "scale", "transform"} :
                   Sent(op, j) = Cardinality(EntriesFor(j))

\* an output reported with scale 1.5 and transform 1 is asked to move to
\* (3, 0): the requests carry scale 1.5 (384 as wl_fixed) and transform 1
C16_Witness ==
    /\ backend = "kwin"
    /\ pc = "idle"
    /\ ret.value = 0
    /\ smc.targets = <<1>>
    /\ kwin.outputs[1].scale = Double(3, 2)
    /\ kwin.outputs[1].transform = 1
    /\ Request("position", 1, <<3, 0>>) \in {smc.ops[n] : n \in 1..Len(smc.ops)}
    /\ Request("scale", 1, <<384>>) \in {smc.ops[n] : n \in 1..Len(smc.ops)}
    /\ Request("transform", 1, <<1>>) \in {smc.ops[n] : n \in 1..Len(smc.ops)}


(***************************************************************************)
(* One configuration at a time.                                            *)
(***************************************************************************)
\* no configuration object outlives the call that created it, and a finished
\* session returns 0 exactly when its own wait saw applied and not failed
C21_NoneLeftAlive ==
    /\ pc = "idle" => smc.config # "live"
    /\ smc.config = "live" => pc \in {"smc_build", "smc_wait", "smc_wait_rt"}
    /\ SessionOver =>
           ret.value = IF trace.applied /\ ~trace.failed THEN 0 ELSE -1

\* the step that creates the configuration finds none alive and clears both
\* flags, and they are still clear when the apply request is sent
C21_FlagsClearedStep ==
    /\ (smc.config # "live" /\ smc'.config = "live") =>
           /\ smc.config = "none"
           /\ ~kwin'.config_applied /\ ~kwin'.config_failed
    /\ trace'.applies > trace.applies =>
           /\ ~kwin'.config_applied /\ ~kwin'.config_failed
           /\ ~trace'.applied /\ ~trace'.failed

\* C21: at most one configuration object is alive, every return of
\* set_monitor_config that created one has destroyed it, and both flags are
\* false when the configuration is created and when it is applied, so what an
\* earlier session was told does not decide a later one
C21_OneConfiguration ==
    /\ []C21_NoneLeftAlive
    /\ [][C21_FlagsClearedStep]_vars

\* a later session is in its refresh roundtrip while both flags still stand
\* from an earlier session that was told applied and failed
C21_Witness ==
    /\ pc = "smc_rt"
    /\ smc.mon_config # <<>>
    /\ smc.config = "none"
    /\ kwin.config_applied
    /\ kwin.config_failed


Unavailable(answered) ==
    IF backend = "kwin" THEN kwin_ptr = "NULL" \/ ~kwin.output_management
    ELSE mutter_ptr = "NULL" \/ ~answered

\* C24: when the backend is unavailable, a call of get_resolutions returns at
\* once with NULL, without a roundtrip or a second query, and the caller's
\* width, height and screen_count hold what they held when it called
C24_UnavailableReturnsNull ==
    [][\A v \in CallerInts, a \in BOOLEAN :
          (/\ \/ KWinGetResolutions(v[1], v[2], v[3])
              \/ MutterGetResolutions(v[1], v[2], v[3], a)
           /\ Unavailable(a))
          => /\ pc' = "idle"
             /\ ret' = [NoRes EXCEPT !.op = "get_resolutions"]
             /\ <<width', height', screen_count'>> = v]_vars

\* Mutter's proxy exists but the state query has failed: NULL is returned and
\* the caller's variables still hold 9, 9, 9 although a monitor is reported
C24_Witness ==
    /\ backend = "mutter"
    /\ mutter_ptr = "live"
    /\ Len(mstate.monitors) > 0
    /\ pc = "idle"
    /\ ret = [NoRes EXCEPT !.op = "get_resolutions"]
    /\ <<width, height, screen_count>> = <<9, 9, 9>>


\* C25: a discovery that succeeds while no output is enabled and ready
\* returns a present, empty list with screen_count 0 and desktop bounds 0, 0
C25_NoOutputsEnabled ==
    (GotResolutions /\ Usable = <<>>) =>
        /\ ret.res = <<>>
        /\ screen_count = 0
        /\ width = 0
        /\ height = 0


\* a call of set_monitor_config has returned -1 with no configuration object
\* made, no request sent and no apply
FailedUnsent ==
    /\ pc' = "idle"
    /\ ret' = [NoRes EXCEPT !.op = "set_monitor_config", !.value = -1]
    /\ smc'.config = "none"
    /\ smc'.ops = <<>>
    /\ trace'.applies = 0

\* a step is a call of set_monitor_config made with no adapter, with output
\* management or the proxy not bound, with no layout, or whose
\* GetCurrentState fails, or it is the return of a create_configuration that
\* gave no object
RefusedCall ==
    /\ pc \in {"idle", "smc_rt"}
    /\ \/ \E p \in BOOLEAN :
             /\ kwin_ptr = "NULL" \/ ~kwin.output_management \/ ~p
             /\ \E m \in Layouts : KWinSetMonitorConfig(p, m)
       \/ KWinSmcConfigure(FALSE)
       \/ \E p, a \in BOOLEAN :
             /\ mutter_ptr = "NULL" \/ ~p \/ ~a
             /\ \E r \in BOOLEAN, m \in Layouts : MutterSetMonitorConfig(p, m, a, r)

\* C29: set_monitor_config returns -1 without creating a configuration and
\* without sending a request when the adapter is absent, output management or
\* the proxy is not bound, the layout is absent, create_configuration gives
\* no object, or Mutter's GetCurrentState fails
C29_FailsWithoutSubmitting == [][FailedUnsent \/ ~RefusedCall]_vars

\* KWin gave no configuration object for a layout of two entries: the call
\* has returned -1 after its roundtrip with nothing made or sent
C29_Witness ==
    /\ backend = "kwin"
    /\ kwin_ptr = "live"
    /\ pc = "idle"
    /\ ret = [NoRes EXCEPT !.op = "set_monitor_config", !.value = -1]
    /\ Len(smc.mon_config) = 2
    /\ smc.config = "none"
    /\ smc.ops = <<>>
    /\ trace.applies = 0


\* the compositor has announced the size and the refresh rate of a mode
FullyAnnounced(mode) == mode.sent.width # 0 /\ mode.sent.refresh # 0

\* C30: once the size, refresh and preferred events of a mode have been
\* processed, the entry stored in the output's mode list carries the
\* announced width, height, refresh rate and preferred flag
C30_StoredModeCarriesAnnounced ==
    \A k \in OutputIdx :
        \A m \in 1..Len(kwin.outputs[k].modes) :
            LET mode == kwin.outputs[k].modes[m]
            IN FullyAnnounced(mode) =>
                   /\ mode.width = mode.sent.width
                   /\ mode.height = mode.sent.height
                   /\ mode.refresh = mode.sent.refresh
                   /\ mode.preferred = mode.sent.preferred


\* C22: no operation and no backend event adds, removes or changes an entry
\* of the Connector Mapping table
C22_TableReadOnly == [][connector_mapping' = connector_mapping]_vars

\* a KWin adapter created over a table of two entries has been destroyed, and
\* the table still holds both
C22_Witness ==
    /\ backend = "kwin"
    /\ kwin_ptr = "freed"
    /\ ret = Destroyed(TRUE)
    /\ DOMAIN connector_mapping = Connectors

\* C26: create returns an adapter only when the backend's protocol is there,
\* and an adapter that create has returned satisfies is_available until it is
\* destroyed
C26_CreatedIsAvailable ==
    /\ (backend = "kwin" /\ kwin_ptr = "live") =>
           /\ kwin.display
           /\ kwin.output_management
           /\ kwin.output_management_version >= MIN_OUTPUT_MANAGEMENT_VERSION
    /\ (ret.op = "is_available" /\ (kwin_ptr = "live" \/ mutter_ptr = "live")) =>
           ret.ok

\* C27: destroy returns, whether the adapter is absent, partly constructed,
\* whole or already destroyed, and has released only what was held; nothing
\* is held afterwards
C27_DestroyIsSafe ==
    ret.op = "destroy" =>
        /\ pc = "idle"
        /\ ret.ok
        /\ kwin = DestroyedKWin
        /\ kwin_ptr # "live"
        /\ mutter_ptr # "live"

\* C28: once a roundtrip in which the compositor removed an output has
\* returned, that output is not in the adapter's list
C28_RemovedOutputLeavesList ==
    pc = "idle" => \A k \in OutputIdx : ~kwin.outputs[k].withdrawn


\* what may change in the adapter at a registry event
C36_BoundOnlyIfRecent ==
    /\ Len(kwin'.outputs) > Len(kwin.outputs) =>
           \E v \in Versions :
               /\ v >= MIN_OUTPUT_DEVICE_VERSION
               /\ registry_handle_global("kde_output_device_v2", v)
    /\ (kwin'.output_management /\ ~kwin.output_management) =>
           \E v \in Versions :
               /\ v >= MIN_OUTPUT_MANAGEMENT_VERSION
               /\ registry_handle_global("kde_output_management_v2", v)
    /\ \A i \in Interfaces, v \in Versions :
           (/\ registry_handle_global(i, v)
            /\ \/ i = "wl_output"
               \/ i = "kde_output_device_v2" /\ v < MIN_OUTPUT_DEVICE_VERSION
               \/ i = "kde_output_management_v2"
                    /\ v < MIN_OUTPUT_MANAGEMENT_VERSION)
           => kwin' = kwin

\* an adapter that create returned has the management protocol bound at an
\* accepted version
C36_ReturnedIsRecent ==
    /\ kwin.output_management =>
           kwin.output_management_version >= MIN_OUTPUT_MANAGEMENT_VERSION
    /\ kwin_ptr = "live" => kwin.output_management

\* C36: registry_handle_global adds an output only for a kde_output_device_v2
\* global of version >= 2 and binds output management only for a
\* kde_output_management_v2 global of version >= 2; an older global changes
\* nothing, and create returns no adapter whose management is not bound
C36_VersionGate == []C36_ReturnedIsRecent /\ [][C36_BoundOnlyIfRecent]_vars

\* in the second roundtrip of create an output has been added, management is
\* not bound, and the compositor may offer globals of version 1
C36_Witness ==
    /\ pc = "create_rt2"
    /\ Len(kwin.outputs) = 1
    /\ ~kwin.output_management
    /\ ENABLED registry_handle_global("kde_output_management_v2", 1)
    /\ ENABLED registry_handle_global("kde_output_device_v2", 1)


\* the modes of output k whose current flag is set
FlaggedModes(k) ==
    {m \in 1..Len(kwin.outputs[k].modes) : kwin.outputs[k].modes[m].current}

\* C31: at most one mode of a KWin output has its current flag set, and the
\* output's current_mode is non-null exactly when it points to that mode,
\* an element of the output's present mode list
C31_OneCurrentMode ==
    \A k \in OutputIdx :
        LET o == kwin.outputs[k]
        IN /\ Cardinality(FlaggedModes(k)) <= 1
           /\ o.current_mode # 0 <=> FlaggedModes(k) # {}
           /\ o.current_mode # 0 =>
                  /\ FlaggedModes(k) = {o.current_mode}
                  /\ ~o.current_dangling


\* C32: within one session no output is the target of more than one layout
\* entry
C32_TargetsDistinct ==
    \A a, b \in 1..Len(smc.targets) :
        (a # b /\ smc.targets[a] # 0) => smc.targets[a] # smc.targets[b]


\* the place of output k among the enabled and ready outputs, counted from 0
UsableRank(k) == Cardinality({j \in 1..(k - 1) : Snapshot[j].usable})

\* the display ids get_resolutions reports for output k: that of the table
\* when some enabled and ready output is mapped, else its place among the
\* enabled and ready ones
ReportedFor(k) ==
    IF ~Snapshot[k].usable THEN {}
    ELSE IF UsableMapped # <<>>
         THEN IF IsMapped(Snapshot[k])
              THEN {connector_mapping[Snapshot[k].name]} ELSE {}
         ELSE {UsableRank(k)}

\* the output set_monitor_config applies the entry of display id d to
AppliedTo(d) ==
    IF backend = "kwin" THEN KWinTarget(kwin.outputs, d)
    ELSE MutterTarget(parse_monitors_from_state(mstate), d)

\* what get_resolutions returned is what ReportedFor tells
ReportedIsReturned ==
    {ret.res[n].display_id : n \in 1..Len(ret.res)}
        = UNION {ReportedFor(k) : k \in 1..Len(Snapshot)}

\* C33: the display id get_resolutions has reported for an output is resolved
\* by set_monitor_config, with the same table and no event in between, to
\* that output
C33_DiscoveryAndApplyAgree ==
    GotResolutions =>
        /\ ReportedIsReturned
        /\ \A k \in 1..Len(Snapshot) :
               \A d \in ReportedFor(k) : AppliedTo(d) = k


\* the logical monitors of the configuration Mutter was sent
LogicalMonitorsSent ==
    {n \in 1..Len(smc.ops) : smc.ops[n].op = "logical_monitor"}

\* C35: every non-empty configuration the Mutter backend submits marks
\* exactly one logical monitor as primary
C35_OnePrimary ==
    (backend = "mutter" /\ LogicalMonitorsSent # {}) =>
        Cardinality({n \in LogicalMonitorsSent : smc.ops[n].args[5]}) = 1


RECURSIVE LogicalMonitorsOf(_, _)
\* one logical monitor at the place of every enabled output from k on
LogicalMonitorsOf(outs, k) ==
    IF k > Len(outs) THEN <<>>
    ELSE IF outs[k].enabled
         THEN <<[x |-> outs[k].x, y |-> outs[k].y, scale |-> 1, transform |-> 0,
                 primary |-> FALSE, monitors |-> {outs[k].name}]>>
              \o LogicalMonitorsOf(outs, k + 1)
         ELSE LogicalMonitorsOf(outs, k + 1)

\* what GetCurrentState answers for the outputs a KWin adapter holds: the
\* same connectors in the same order, each with one mode of the output's
\* size, current when the output is enabled, at the output's position
MutterStateOf(outs) ==
    [monitors |->
        [k \in 1..Len(outs) |->
            [connector |-> outs[k].name,
             modes |-> <<[mode_id |-> <<outs[k].width, outs[k].height, 60>>,
                          width |-> outs[k].width, height |-> outs[k].height,
                          refresh_rate |-> 60, is_current |-> outs[k].enabled]>>]],
     logical_monitors |-> LogicalMonitorsOf(outs, 1)]

\* every output of the KWin adapter is named and ready
AllReady ==
    \A k \in OutputIdx : kwin.outputs[k].done /\ kwin.outputs[k].name # NullName

\* C34: for the same normalized snapshot and the same table the KWin and the
\* Mutter get_resolutions return the same list, the same desktop bounds and
\* the same screen_count
C34_BackendsAgree ==
    (GotResolutions /\ backend = "kwin" /\ AllReady) =>
        LET ms == MutterStateOf(kwin.outputs)
        IN \A v \in CallerInts, junk \in JunkChoices(ms) :
               LET acc == MutterScan(ms, 1, junk, MutterScanStart(ms, v[1], v[2]))
               IN /\ ret.res = FallbackByIndex(acc.res_array, acc.not_found_array)
                  /\ width = acc.width
                  /\ height = acc.height
                  /\ screen_count = acc.screen_count

\* the lists alone agree
BackendListsAgree ==
    (GotResolutions /\ backend = "kwin" /\ AllReady) =>
        LET ms == MutterStateOf(kwin.outputs)
        IN \A junk \in JunkChoices(ms) :
               LET acc == MutterScan(ms, 1, junk, MutterScanStart(ms, 0, 0))
               IN ret.res = FallbackByIndex(acc.res_array, acc.not_found_array)

=============================================================================
